---- MODULE Spec2Model ----
(***************************************************************************)
(* A model of the NV-Line-Agent research workflow:                         *)
(*   - the scope-clarification graph (phases/research_scope.py, main.py),  *)
(*   - the search pipeline helpers (helper/utils.py, helper/tools.py),     *)
(*   - the supervisor fan-out/fan-in over researcher sub-agents            *)
(*     (helper/state_config.py, helper/utils.py; the supervisor node       *)
(*     itself, phases/research_execution/lead_researcher.py, is imported   *)
(*     by main.py but is not part of the sources, and is modelled from     *)
(*     section 4.4 of the specification),                                  *)
(*   - the researcher loop (phases/researcher.py llm_call, helper/tools.py; *)
(*     the rest of the loop is not part of the sources and follows section *)
(*     4.3 of the specification),                                          *)
(*   - the execution graph and the writer (main.py,                        *)
(*     phases/research_execution/writer.py).                               *)
(* Texts the program slices or concatenates are sequences of one-character *)
(* strings; texts it only passes around are TLA+ strings.                  *)
(***************************************************************************)
EXTENDS Integers, Sequences, FiniteSets, TLC

VARIABLES
    \* ---- scope phase (main.py, phases/research_scope.py)
    checkpoints,      \* InMemorySaver of research_brief_agent: thread_id -> graph state
    main_pc,          \* position of main_research_workflow
    scope_node,       \* node of the scope graph the current turn is at
    scope_thread,     \* thread_id of the current turn
    decision,         \* ClarifyWithUser responses of the current turn (none or one)
    brief_response,   \* ResearchQuestion response of the current turn, or None
    turn_start,       \* graph state of the thread right after the turn's input was applied
    turn_trace,       \* nodes entered in the current turn, in order
    turn_prompts,     \* inference calls of the current turn: <<schema, buffer string>>
    turns,            \* number of scope turns started
    research_brief,   \* local variable research_brief of main_research_workflow
    scope_result,     \* local variable result of main_research_workflow: what the
                      \* latest finished scope turn returned
    printed,          \* arguments of the latest print of main_research_workflow
    \* ---- truncate_content_by_tokens (helper/utils.py), called on its own
    tr_pc,            \* "call" before the call, "returned" after it
    tr_content,       \* argument content
    tr_max_tokens,    \* argument max_tokens
    tr_result,        \* the returned text
    \* ---- summarize_webpage_content (helper/utils.py), called on its own
    sm_pc,            \* "call" before the call, "returned" or "raised" after it
    sm_content,       \* argument webpage_content
    sm_outcome,       \* what structured_model.invoke does in this call
    sm_result,        \* the returned text
    \* ---- search pipeline (helper/tools.py tavily_search, helper/utils.py)
    se_pc,            \* the next step of the pipeline
    se_queries,       \* search_queries
    se_docs,          \* search_docs: one provider response per query searched so far
    se_unique,        \* unique_results, a dict: its entries in insertion order
    se_outcomes,      \* what the summarization model did for each unique result
    se_summarized,    \* summarized_results, a dict: its entries in insertion order
    se_calls,         \* the raw contents summarize_webpage_content was called on, in order
    se_output,        \* the formatted text tavily_search returns
    \* ---- supervisor delegation loop (SupervisorState, helper/state_config.py)
    sup_pc,               \* "model": a supervisor turn is due; "fan_out": sub-agents
                          \* of the turn are awaited; "done"; "raised"
    supervisor_messages,  \* SupervisorState.supervisor_messages
    notes,                \* SupervisorState.notes
    research_iterations,  \* SupervisorState.research_iterations
    sub_agents,           \* the researcher loops dispatched by the latest turn
    round_notes,          \* notes as they were when that turn dispatched them
    \* ---- researcher loop (ResearcherState, helper/state_config.py)
    res_pc,               \* the next step of the loop
    researcher_messages,  \* ResearcherState.researcher_messages
    tool_call_iterations, \* ResearcherState.tool_call_iterations
    research_topic,       \* ResearcherState.research_topic
    compressed_research,  \* ResearcherState.compressed_research
    \* ---- execution phase (main.py, phases/research_execution/writer.py)
    ex_pc,            \* node of the execution graph that is due, or where the run ended
    agent_state,      \* AgentState of the run's thread
    ex_trace,         \* nodes of the execution graph entered, in order
    writer_calls,     \* prompts writer_model.ainvoke was called with, in order
    uploads,          \* texts handed to the storage upload, in order
    environ,          \* what os.getenv returned to save_final_report, None before
    \* ---- the researcher loops of one fan-out, each with its ResearcherState
    loops             \* index of the delegation call -> position and state of its loop

scopeVars == << checkpoints, main_pc, scope_node, scope_thread, decision,
                brief_response, turn_start, turn_trace, turn_prompts, turns,
                research_brief, scope_result,
                    printed >>

truncVars == << tr_pc, tr_content, tr_max_tokens, tr_result >>

summVars == << sm_pc, sm_content, sm_outcome, sm_result >>

searchVars == << se_pc, se_queries, se_docs, se_unique, se_outcomes, se_summarized,
                 se_calls, se_output >>

supVars == << sup_pc, supervisor_messages, notes, research_iterations, sub_agents,
             round_notes >>

resVars == << res_pc, researcher_messages, tool_call_iterations, research_topic,
             compressed_research >>

execVars == << ex_pc, agent_state, ex_trace, writer_calls, uploads, environ >>

fanVars == << loops >>

vars == << scopeVars, truncVars, summVars, searchVars, supVars, resVars, execVars,
           fanVars >>

None == "None"

\* sequence a is an initial part of sequence b
IsPrefix(a, b) == Len(a) <= Len(b) /\ SubSeq(b, 1, Len(a)) = a

-----------------------------------------------------------------------------
(* Scope clarification: bounds and input sets                              *)

\* number of scope turns a run of the workflow is followed for
MaxTurns == 3

\* what the user types at the "User: " prompt
UserInputs == {"tell me about X", "about its history"}

\* the values the inference service can put into the ClarifyWithUser fields
Questions == {"which X?"}
Verifications == {"starting research"}

\* the values the inference service can return as ResearchQuestion.research_brief;
\* the schema says str, so the empty string is one of them
Briefs == {"", "brief on X"}

ClarifyWithUser == [need_clarification : BOOLEAN, question : Questions,
                    verification : Verifications]

HumanMessage(c) == [type |-> "human", content |-> c]
AIMessage(c) == [type |-> "ai", content |-> c]

END == "__end__"

\* langchain_core get_buffer_string: one "<Role>: <content>" line per message
RolePrefix(m) == IF m.type = "human" THEN "Human" ELSE "AI"
get_buffer_string(messages) ==
    [i \in 1..Len(messages) |-> << RolePrefix(messages[i]), messages[i].content >>]

\* the add_messages reducer of MessagesState: new messages go after the old ones
\* (add_messages_overwrite: a field without reducer)
add_messages_overwrite(left, right) == right
add_messages(left, right) == left \o right

\* thread_id = f"thread_{hash(message)}": one thread per distinct input text
ThreadId(message) == message

\* state of a thread the checkpointer has never seen
EmptyState == [messages |-> << >>, research_brief |-> None]

ThreadState(t) == IF t \in DOMAIN checkpoints THEN checkpoints[t] ELSE EmptyState

ScopeState == ThreadState(scope_thread)

Save(t, st) == [x \in (DOMAIN checkpoints) \cup {t} |->
                   IF x = t THEN st ELSE checkpoints[x]]

\* bool(result.get('research_brief', {})) in main_research_workflow
\* (HasBriefKey: tested with `is not None`)
HasBriefKey(st) == st.research_brief # None
HasBrief(st) == st.research_brief # None /\ st.research_brief # ""

-----------------------------------------------------------------------------
(* Scope clarification: actions                                            *)

\* what no step of the scope phase touches
ScopeFrame ==
    UNCHANGED << truncVars, summVars, searchVars, supVars, resVars, execVars, fanVars >>

ScopeInit ==
    /\ checkpoints = << >>
    /\ main_pc = "scope_input"
    /\ scope_node = None
    /\ scope_thread = None
    /\ decision = << >>
    /\ brief_response = None
    /\ turn_start = EmptyState
    /\ turn_trace = << >>
    /\ turn_prompts = << >>
    /\ turns = 0
    /\ research_brief = None
    /\ scope_result = EmptyState
    /\ printed = << >>

\* execute_research_scope_phase up to the first node: read the input, pick the
\* thread by the input's hash, apply {"messages": [HumanMessage(message)]} to the
\* thread's saved state and enter clarify_with_user (edge START -> clarify_with_user)
ScopeInvoke(message) ==
    /\ ScopeFrame
    /\ main_pc = "scope_input"
    /\ turns < MaxTurns
    /\ LET t == ThreadId(message)
           old == ThreadState(t)
           st == [old EXCEPT !.messages = add_messages(@, << HumanMessage(message) >>)]
       IN /\ checkpoints' = Save(t, st)
          /\ scope_thread' = t
          /\ turn_start' = st
    /\ main_pc' = "scope_running"
    /\ scope_node' = "clarify_with_user"
    /\ decision' = << >>
    /\ brief_response' = None
    /\ turn_trace' = << "clarify_with_user" >>
    /\ turn_prompts' = << >>
    /\ turns' = turns + 1
    /\ UNCHANGED << research_brief, scope_result,
                    printed >>

\* Command(goto=..., update=...) returned by clarify_with_user
ClarifyGotoAlwaysBrief(response) == "write_research_brief"
ClarifyGoto(response) ==
    IF response.need_clarification THEN END ELSE "write_research_brief"

ClarifyUpdate(response) ==
    IF response.need_clarification
    THEN << AIMessage(response.question) >>
    ELSE << AIMessage(response.verification) >>

\* clarify_with_user, the structured-output call returning `response`
clarify_with_user(response) ==
    /\ ScopeFrame
    /\ main_pc = "scope_running"
    /\ scope_node = "clarify_with_user"
    /\ turn_prompts' = Append(turn_prompts,
                              << "ClarifyWithUser", get_buffer_string(ScopeState.messages) >>)
    /\ decision' = Append(decision, response)
    /\ checkpoints' = Save(scope_thread,
          [ScopeState EXCEPT !.messages = add_messages(@, ClarifyUpdate(response))])
    /\ scope_node' = ClarifyGoto(response)
    /\ turn_trace' = IF ClarifyGoto(response) = END THEN turn_trace
                     ELSE Append(turn_trace, ClarifyGoto(response))
    /\ UNCHANGED << main_pc, scope_thread, brief_response, turn_start, turns,
                    research_brief, scope_result,
                    printed >>

\* (clarify_with_user_retries: the failure is caught and the call is made again)
clarify_with_user_retries ==
    /\ ScopeFrame
    /\ main_pc = "scope_running"
    /\ scope_node = "clarify_with_user"
    /\ turn_prompts' = Append(turn_prompts,
                              << "ClarifyWithUser", get_buffer_string(ScopeState.messages) >>)
    /\ UNCHANGED << checkpoints, main_pc, scope_node, scope_thread, decision,
                    brief_response, turn_start, turn_trace, turns, research_brief,
                    scope_result,
                    printed >>

\* (clarify_with_user_defaults: the failure is caught and a default question is asked)
clarify_with_user_defaults ==
    /\ ScopeFrame
    /\ main_pc = "scope_running"
    /\ scope_node = "clarify_with_user"
    /\ turn_prompts' = Append(turn_prompts,
                              << "ClarifyWithUser", get_buffer_string(ScopeState.messages) >>)
    /\ checkpoints' = Save(scope_thread,
          [ScopeState EXCEPT !.messages = add_messages(@, << AIMessage("which X?") >>)])
    /\ scope_node' = END
    /\ UNCHANGED << main_pc, scope_thread, decision, brief_response, turn_start,
                    turn_trace, turns, research_brief, scope_result,
                    printed >>

\* clarify_with_user, the structured-output call raising: nothing is caught, the
\* exception leaves ainvoke, execute_research_scope_phase and main_research_workflow
clarify_with_user_raises ==
    /\ ScopeFrame
    /\ main_pc = "scope_running"
    /\ scope_node = "clarify_with_user"
    /\ turn_prompts' = Append(turn_prompts,
                              << "ClarifyWithUser", get_buffer_string(ScopeState.messages) >>)
    /\ scope_node' = "raised"
    /\ main_pc' = "raised"
    /\ UNCHANGED << checkpoints, scope_thread, decision, brief_response, turn_start,
                    turn_trace, turns, research_brief, scope_result,
                    printed >>

\* the update write_research_brief returns
BriefUpdateDropped(st, brief) == st
BriefUpdate(st, brief) == [st EXCEPT !.research_brief = brief]

\* write_research_brief, the structured-output call returning `brief`; then the
\* edge write_research_brief -> END
write_research_brief(brief) ==
    /\ ScopeFrame
    /\ main_pc = "scope_running"
    /\ scope_node = "write_research_brief"
    /\ turn_prompts' = Append(turn_prompts,
                              << "ResearchQuestion", get_buffer_string(ScopeState.messages) >>)
    /\ brief_response' = brief
    /\ checkpoints' = Save(scope_thread, BriefUpdate(ScopeState, brief))
    /\ scope_node' = END
    /\ UNCHANGED << main_pc, scope_thread, decision, turn_start, turn_trace, turns,
                    research_brief, scope_result,
                    printed >>

write_research_brief_raises ==
    /\ ScopeFrame
    /\ main_pc = "scope_running"
    /\ scope_node = "write_research_brief"
    /\ turn_prompts' = Append(turn_prompts,
                              << "ResearchQuestion", get_buffer_string(ScopeState.messages) >>)
    /\ scope_node' = "raised"
    /\ main_pc' = "raised"
    /\ UNCHANGED << checkpoints, scope_thread, decision, brief_response, turn_start,
                    turn_trace, turns, research_brief, scope_result,
                    printed >>

\* main_research_workflow, the body of `while True` after the scope turn returned:
\* break with the brief, or print the last message and ask again
ScopeReturn ==
    /\ ScopeFrame
    /\ main_pc = "scope_running"
    /\ scope_node = END
    /\ scope_result' = ScopeState
    /\ IF HasBrief(ScopeState)
       THEN /\ research_brief' = ScopeState.research_brief
            /\ printed' = << "Research Brief: ", ScopeState.research_brief >>
            /\ main_pc' = "execution"
       ELSE /\ research_brief' = research_brief
            /\ printed' = << ScopeState.messages[Len(ScopeState.messages)].content >>
            /\ main_pc' = "scope_input"
    /\ UNCHANGED << checkpoints, scope_node, scope_thread, decision, brief_response,
                    turn_start, turn_trace, turn_prompts, turns >>

ScopeNext ==
    \/ \E message \in UserInputs : ScopeInvoke(message)
    \/ \E response \in ClarifyWithUser : clarify_with_user(response)
    \/ clarify_with_user_raises
    \/ \E brief \in Briefs : write_research_brief(brief)
    \/ write_research_brief_raises
    \/ ScopeReturn

ScopeIdle == ScopeInit

-----------------------------------------------------------------------------
(* Scope clarification: claims                                             *)

TurnDecided == Len(decision) = 1
Decision == decision[1]
TurnMessages == ScopeState.messages

\* C1: in a turn whose clarify decision has need_clarification = TRUE, control goes
\* from clarify_with_user straight to END: write_research_brief is not entered in
\* that turn, no research_brief is written in that turn, and the one message the
\* turn adds to the history is the assistant message holding the decision's question.
C1_ClarificationEndsTurn ==
    (TurnDecided /\ Decision.need_clarification) =>
        /\ scope_node = END
        /\ turn_trace = << "clarify_with_user" >>
        /\ brief_response = None
        /\ ScopeState.research_brief = turn_start.research_brief
        /\ TurnMessages = turn_start.messages \o << AIMessage(Decision.question) >>

\* a turn that asked a question has returned to the caller, which asks for input again
C1_Witness ==
    /\ TurnDecided /\ Decision.need_clarification
    /\ scope_node = END
    /\ main_pc = "scope_input"
    /\ TurnMessages[Len(TurnMessages)] = AIMessage(Decision.question)

\* C2 as stated: every turn whose decision has need_clarification = FALSE ends with
\* a non-empty research_brief.
C2_EveryProceedTurnEndsWithBrief ==
    (TurnDecided /\ ~Decision.need_clarification /\ scope_node \in {END, "raised"}) =>
        HasBrief(ScopeState)

\* C2 amended: in a turn whose decision has need_clarification = FALSE the
\* verification (not the question) is the one assistant message appended, the next
\* node is write_research_brief, and when the brief call returns, the returned brief
\* is stored verbatim as research_brief and the machine is at END: the stored brief is
\* non-empty exactly when the returned one is. When the brief call raises, the turn
\* ends with the failure and research_brief is left as it was.
C2_ProceedTurnStoresReturnedBrief ==
    (TurnDecided /\ ~Decision.need_clarification) =>
        /\ TurnMessages = turn_start.messages \o << AIMessage(Decision.verification) >>
        /\ turn_trace = << "clarify_with_user", "write_research_brief" >>
        /\ scope_node \in {"write_research_brief", END, "raised"}
        /\ scope_node = END =>
              /\ brief_response \in Briefs
              /\ ScopeState.research_brief = brief_response
              /\ HasBrief(ScopeState) <=> brief_response # ""
        /\ scope_node # END =>
              /\ brief_response = None
              /\ ScopeState.research_brief = turn_start.research_brief

\* a proceed turn that ended with a non-empty brief, handed to the execution phase
C2_Witness ==
    /\ TurnDecided /\ ~Decision.need_clarification
    /\ scope_node = END
    /\ HasBrief(ScopeState)
    /\ main_pc = "execution"
    /\ research_brief = brief_response

\* an inference call of the current turn was made and returned nothing: it failed
CallFailed == Len(turn_prompts) > Len(decision) + (IF brief_response = None THEN 0 ELSE 1)
\* the inference call the turn made last
LastCall == turn_prompts[Len(turn_prompts)]

\* after a failed call: the turn and the workflow have ended with the failure, the
\* history is the one the call was made over, nothing is stored, nothing was asked twice
C15_FailureInvariant ==
    CallFailed =>
        /\ scope_node = "raised"
        /\ main_pc = "raised"
        /\ get_buffer_string(TurnMessages) = LastCall[2]
        /\ brief_response = None
        /\ ScopeState.research_brief = turn_start.research_brief
        /\ research_brief = None
        /\ \A i, j \in 1..Len(turn_prompts) :
              turn_prompts[i][1] = turn_prompts[j][1] => i = j
        /\ decision = << >> =>
              /\ turn_trace = << "clarify_with_user" >>
              /\ turn_prompts = << << "ClarifyWithUser",
                                     get_buffer_string(turn_start.messages) >> >>
              /\ TurnMessages = turn_start.messages

\* C15: when an inference call of the scope turn fails, the failure leaves the turn
\* and main_research_workflow (nothing runs after it); the failed call appended no
\* message (the history is the one the call was made over), no research_brief is
\* stored, no schema was requested twice (no retry); when it is the clarify call
\* that failed, write_research_brief was not entered and the history is the one the
\* turn started with.
C15_ClarificationFailureSurfaces ==
    /\ []C15_FailureInvariant
    /\ [][main_pc # "raised"]_vars

\* the clarify call of a second turn failed: the saved history of the thread is the
\* user's message of this turn and nothing after it
C15_Witness ==
    /\ CallFailed
    /\ decision = << >>
    /\ turns = 2
    /\ main_pc = "raised"
    /\ TurnMessages[Len(TurnMessages)].type = "human"

\* the latest finished turn ended with a clarification question
AskedBefore ==
    /\ scope_result.messages # << >>
    /\ scope_result.messages[Len(scope_result.messages)].type = "ai"
    /\ scope_result.messages[Len(scope_result.messages)].content \in Questions
\* what the user typed for the current turn
Reply == turn_start.messages[Len(turn_start.messages)].content

\* C16: in the turn after a turn that ended with a clarification question, the
\* clarify decision is made over the earlier history (the earlier user messages and
\* the assistant's question) followed by the user's new reply.
C16_ReplyJoinsEarlierHistory ==
    (main_pc \in {"scope_running", "raised"} /\ AskedBefore /\ turn_prompts # << >>) =>
        turn_prompts[1] =
            << "ClarifyWithUser",
               get_buffer_string(scope_result.messages \o << HumanMessage(Reply) >>) >>


\* the inference calls of the current turn that requested a schema
CallsFor(schema) ==
    Cardinality({i \in 1..Len(turn_prompts) : turn_prompts[i][1] = schema})
\* the clarify step of the current turn is over (or no turn was started yet)
ClarifyOver == ~(main_pc = "scope_running" /\ scope_node = "clarify_with_user")

\* C26: in every scope turn the inference service is called exactly once for the
\* clarification decision and at most once for the brief; the brief call comes
\* second, and only in a turn whose clarification call returned
\* need_clarification = FALSE; a turn makes at most two calls and repeats neither.
C26_CallsPerTurn ==
    /\ Len(turn_prompts) <= 2
    /\ CallsFor("ClarifyWithUser") <= 1
    /\ CallsFor("ResearchQuestion") <= 1
    /\ (turns >= 1 /\ ClarifyOver) => CallsFor("ClarifyWithUser") = 1
    /\ turn_prompts # << >> => turn_prompts[1][1] = "ClarifyWithUser"
    /\ CallsFor("ResearchQuestion") = 1 =>
          /\ Len(turn_prompts) = 2
          /\ turn_prompts[2][1] = "ResearchQuestion"
          /\ TurnDecided
          /\ ~Decision.need_clarification
    /\ (TurnDecided /\ ~Decision.need_clarification /\ scope_node \in {END, "raised"}) =>
          CallsFor("ResearchQuestion") = 1
    /\ (TurnDecided /\ Decision.need_clarification) => Len(turn_prompts) = 1

\* a second turn that made both calls and ended
C26_Witness ==
    /\ turns = 2
    /\ scope_node = END
    /\ TurnDecided /\ ~Decision.need_clarification
    /\ Len(turn_prompts) = 2
    /\ brief_response # None

\* the saved history of every thread is kept in front of its new value
HistoriesKept ==
    \A t \in DOMAIN checkpoints :
        /\ t \in DOMAIN checkpoints'
        /\ IsPrefix(checkpoints[t].messages, checkpoints'[t].messages)
\* the message lists of all threads, as saved
Histories == [t \in DOMAIN checkpoints |-> checkpoints[t].messages]

\* C27: the conversation history of the scope phase is append-only: no step removes,
\* moves or changes a saved message; a clarify step that returns appends exactly one
\* assistant message, the question or the verification of its decision, after all
\* messages of the thread and touches no other thread; write_research_brief appends
\* nothing.
C27_HistoryAppendOnly ==
    [][/\ HistoriesKept
       /\ (scope_node = "clarify_with_user" /\ scope_node' \in {END, "write_research_brief"}) =>
             /\ Len(decision') = 1
             /\ checkpoints'[scope_thread].messages =
                   Append(checkpoints[scope_thread].messages,
                          AIMessage(IF decision'[1].need_clarification
                                    THEN decision'[1].question
                                    ELSE decision'[1].verification))
             /\ \A t \in DOMAIN checkpoints :
                   t # scope_thread => checkpoints'[t].messages = checkpoints[t].messages
       /\ scope_node = "write_research_brief" =>
             [t \in DOMAIN checkpoints' |-> checkpoints'[t].messages] = Histories
      ]_vars

\* the same text was entered twice: the thread holds both user messages and both
\* assistant messages, in the order they were added
C27_Witness ==
    /\ turns = 2
    /\ scope_node = END
    /\ Len(TurnMessages) = 4
    /\ TurnMessages[1].type = "human" /\ TurnMessages[2].type = "ai"
    /\ TurnMessages[3] = TurnMessages[1]
    /\ TurnMessages[4].content \in Verifications
    /\ brief_response # None

-----------------------------------------------------------------------------
(* truncate_content_by_tokens                                              *)

\* largest max_tokens the function is called with
MaxTokens == 5
\* how far beyond max_tokens*4 characters the contents go
MaxExcess == 2

Punctuation == {".", "!", "?"}

\* A content of n characters: filler "a", and up to two sentence ends, a
\* punctuation mark at (1-based) position p followed by a space; p = 0 places none.
\* A mark in the last position, or one overwritten by the other, has no space after it.
MarkedContent(n, p1, k1, p2, k2) ==
    [i \in 1..n |->
        IF p2 > 0 /\ i = p2 THEN k2
        ELSE IF p2 > 0 /\ i = p2 + 1 THEN " "
        ELSE IF p1 > 0 /\ i = p1 THEN k1
        ELSE IF p1 > 0 /\ i = p1 + 1 THEN " "
        ELSE "a"]

Max(S) == CHOOSE x \in S : \A y \in S : y <= x

\* str.rfind of the two characters <<c, " ">>: the highest 0-based index, or -1
rfind(s, c) ==
    Max({-1} \cup {i \in 0..(Len(s) - 2) : s[i + 1] = c /\ s[i + 2] = " "})

\* s[:n] for 0 <= n
Prefix(s, n) == SubSeq(s, 1, IF n < Len(s) THEN n ELSE Len(s))

Ellipsis == << ".", ".", "." >>

\* len(content) <= max_chars
FitsBudgetStrict(content, max_chars) == Len(content) < max_chars
FitsBudget(content, max_chars) == Len(content) <= max_chars

\* last_sentence_end > max_chars * 0.8, in exact arithmetic (for every max_chars up
\* to 400000 the float product compares with an integer as 4*max_chars/5 does)
KeepsMostInclusive(last_sentence_end, max_chars) == 5 * last_sentence_end >= 4 * max_chars
KeepsMost(last_sentence_end, max_chars) == 5 * last_sentence_end > 4 * max_chars

truncate_content_by_tokens(content, max_tokens) ==
    LET max_chars == max_tokens * 4
        truncated == Prefix(content, max_chars)
        last_period == rfind(truncated, ".")
        last_exclamation == rfind(truncated, "!")
        last_question == rfind(truncated, "?")
        last_sentence_end == Max({last_period, last_exclamation, last_question})
    IN IF FitsBudget(content, max_chars) THEN content
       ELSE IF KeepsMost(last_sentence_end, max_chars)
            THEN Prefix(truncated, last_sentence_end + 1)
            ELSE truncated \o Ellipsis

\* what a call of the function leaves alone
TruncFrame ==
    UNCHANGED << scopeVars, summVars, searchVars, supVars, resVars, execVars, fanVars >>

TruncIdle ==
    /\ tr_pc = "idle"
    /\ tr_content = << >>
    /\ tr_max_tokens = 0
    /\ tr_result = << >>

TruncInit ==
    /\ tr_pc = "call"
    /\ tr_max_tokens \in 1..MaxTokens
    /\ \E n \in 0..(4 * tr_max_tokens + MaxExcess) :
         \E p1, p2 \in 0..n : \E k1, k2 \in Punctuation :
            tr_content = MarkedContent(n, p1, k1, p2, k2)
    /\ tr_result = << >>

TruncCall ==
    /\ TruncFrame
    /\ tr_pc = "call"
    /\ tr_result' = truncate_content_by_tokens(tr_content, tr_max_tokens)
    /\ tr_pc' = "returned"
    /\ UNCHANGED << tr_content, tr_max_tokens >>

-----------------------------------------------------------------------------
(* truncate_content_by_tokens: claims                                      *)

TrBudget == 4 * tr_max_tokens
TrReturned == tr_pc = "returned"
TrOverBudget == Len(tr_content) > TrBudget
\* the truncation window: the first max_tokens*4 characters
TrWindow == Prefix(tr_content, TrBudget)
\* 0-based positions of the sentence ends ('. ', '! ', '? ') inside the window
TrSentenceEnds ==
    {i \in 0..(Len(TrWindow) - 2) : TrWindow[i + 1] \in Punctuation /\ TrWindow[i + 2] = " "}
\* those at or after 80% of the window, and those strictly after it
TrEndsFrom80 == {i \in TrSentenceEnds : 5 * i >= 4 * TrBudget}
TrEndsAfter80 == {i \in TrSentenceEnds : 5 * i > 4 * TrBudget}

\* C4 as stated: for every content longer than max_tokens*4 characters the result
\* has at most max_tokens*4 characters, hard truncation with the ellipsis included.
C4_TruncationWithinBudget ==
    (TrReturned /\ TrOverBudget) => Len(tr_result) <= TrBudget

\* C5 as stated: for content over the budget, a sentence end at a position
\* >= 80% of the window (80% itself included) makes the result end at the last such
\* sentence end; otherwise the result is the window followed by the ellipsis.
C5_CutsAtSentenceEndFrom80 ==
    (TrReturned /\ TrOverBudget) =>
        IF TrEndsFrom80 # {}
        THEN /\ tr_result = Prefix(TrWindow, Max(TrEndsFrom80) + 1)
             /\ tr_result[Len(tr_result)] \in Punctuation
        ELSE tr_result = TrWindow \o Ellipsis

\* C5 amended: for content over the budget, a sentence end at a position strictly
\* greater than 80% of the window makes the result end exactly at the last such
\* sentence end, its final character being the punctuation mark; when no sentence
\* end lies strictly after 80% (one exactly at 80% does not count) the result is the
\* whole window followed by the ellipsis.
C5_CutsAtSentenceEndAfter80 ==
    (TrReturned /\ TrOverBudget) =>
        IF TrEndsAfter80 # {}
        THEN /\ tr_result = Prefix(TrWindow, Max(TrEndsAfter80) + 1)
             /\ tr_result[Len(tr_result)] \in Punctuation
        ELSE tr_result = TrWindow \o Ellipsis

\* a long content with two sentence ends in the window, the later one after 80%,
\* cut at that one
C5_Witness ==
    /\ TrReturned /\ TrOverBudget
    /\ Cardinality(TrSentenceEnds) = 2
    /\ TrEndsAfter80 # {}
    /\ Len(tr_result) = Max(TrEndsAfter80) + 1

\* C6: a content of at most max_tokens*4 characters (exactly that many included)
\* is returned unchanged.
C6_ShortContentUnchanged ==
    (TrReturned /\ ~TrOverBudget) => tr_result = tr_content

\* a content of exactly max_tokens*4 characters, ending in a sentence end, returned whole
C6_Witness ==
    /\ TrReturned
    /\ Len(tr_content) = TrBudget
    /\ TrSentenceEnds # {}
    /\ tr_result = tr_content

-----------------------------------------------------------------------------
(* summarize_webpage_content                                               *)

\* webpage_content[:1000]
FallbackChars == 1000
\* truncate_content_by_tokens(webpage_content, max_tokens=100000)
SummaryMaxTokens == 100000
\* the contents have up to MaxSlack characters, or FallbackChars give or take MaxSlack
MaxSlack == 3

\* a content of n characters, every period-th one a "b", the others "a"
PatternContent(n, period) == [i \in 1..n |-> IF i % period = 0 THEN "b" ELSE "a"]

SummaryOpen ==
    << "<", "s", "u", "m", "m", "a", "r", "y", ">", "\n" >>
SummaryClose ==
    << "\n", "<", "/", "s", "u", "m", "m", "a", "r", "y", ">", "\n", "\n", "<", "k",
       "e", "y", "_", "e", "x", "c", "e", "r", "p", "t", "s", ">", "\n" >>
ExcerptsClose ==
    << "\n", "<", "/", "k", "e", "y", "_", "e", "x", "c", "e", "r", "p", "t", "s",
       ">" >>

\* what the structured-output call of the summarization model does: it raises, or
\* returns a Summary(summary, key_excerpts)
InferenceFailure == [ok |-> FALSE, summary |-> << >>, key_excerpts |-> << >>]
Summaries ==
    [ok : {TRUE}, summary : {<< >>, << "s" >>}, key_excerpts : {<< "k", "." >>}]
Outcomes == {InferenceFailure} \cup Summaries

\* the prompt's webpage_content
SummaryPrompt(webpage_content) ==
    truncate_content_by_tokens(webpage_content, SummaryMaxTokens)

\* the body of the try block: the formatted summary, or the exception raised in it
SummarizeTry(webpage_content, outcome) ==
    IF outcome.ok
    THEN [raised |-> FALSE,
          value |-> SummaryOpen \o outcome.summary \o SummaryClose
                    \o outcome.key_excerpts \o ExcerptsClose]
    ELSE [raised |-> TRUE, value |-> << >>]

\* len(webpage_content) > 1000
NeedsCutInclusive(webpage_content) == Len(webpage_content) >= FallbackChars
NeedsCut(webpage_content) == Len(webpage_content) > FallbackChars

\* the except block
SummarizeFallback(webpage_content) ==
    IF NeedsCut(webpage_content)
    THEN Prefix(webpage_content, FallbackChars) \o Ellipsis
    ELSE webpage_content

\* [raised |-> does the call raise, value |-> what it returns]
summarize_webpage_content(webpage_content, outcome) ==
    LET attempt == SummarizeTry(webpage_content, outcome)
    IN IF attempt.raised
       THEN [raised |-> FALSE, value |-> SummarizeFallback(webpage_content)]
       ELSE attempt

\* what a call of the function leaves alone
SummFrame ==
    UNCHANGED << scopeVars, truncVars, searchVars, supVars, resVars, execVars, fanVars >>

SummIdle ==
    /\ sm_pc = "idle"
    /\ sm_content = << >>
    /\ sm_outcome = InferenceFailure
    /\ sm_result = << >>

SummInit ==
    /\ sm_pc = "call"
    /\ \E n \in (0..MaxSlack) \cup ((FallbackChars - MaxSlack)..(FallbackChars + MaxSlack)) :
         \E period \in {2, 3, 7} : sm_content = PatternContent(n, period)
    /\ sm_outcome = InferenceFailure
    /\ sm_result = << >>

SummCall(outcome) ==
    /\ SummFrame
    /\ sm_pc = "call"
    /\ sm_outcome' = outcome
    /\ LET r == summarize_webpage_content(sm_content, outcome)
       IN /\ sm_pc' = IF r.raised THEN "raised" ELSE "returned"
          /\ sm_result' = r.value
    /\ UNCHANGED sm_content

NextSummarize == \E outcome \in Outcomes : SummCall(outcome)

-----------------------------------------------------------------------------
(* summarize_webpage_content: claims                                       *)

\* C7 as stated: whatever the length of the raw content, when the inference call
\* fails the function raises nothing and returns the first 1000 characters of the
\* raw content plus an ellipsis.
C7_FallbackAlwaysEllipsis ==
    (sm_pc # "call" /\ ~sm_outcome.ok) =>
        /\ sm_pc = "returned"
        /\ sm_result = Prefix(sm_content, FallbackChars) \o Ellipsis

\* C7 amended: when the inference call fails the function raises nothing; it returns
\* the first 1000 characters of the raw content plus an ellipsis when the raw content
\* is longer than 1000 characters, and the raw content unchanged (no ellipsis) when it
\* has 1000 characters or fewer.
C7_FallbackCutsOnlyLongContent ==
    (sm_pc # "call" /\ ~sm_outcome.ok) =>
        /\ sm_pc = "returned"
        /\ Len(sm_content) > 1000 =>
              /\ Len(sm_result) = 1003
              /\ SubSeq(sm_result, 1, 1000) = SubSeq(sm_content, 1, 1000)
              /\ SubSeq(sm_result, 1001, 1003) = << ".", ".", "." >>
        /\ Len(sm_content) <= 1000 => sm_result = sm_content

\* a failed summarization of a content longer than 1000 characters, cut to 1000 + "..."
C7_Witness ==
    /\ sm_pc = "returned" /\ ~sm_outcome.ok
    /\ Len(sm_content) > 1000
    /\ Len(sm_result) = 1003
    /\ sm_result[1003] = "."

-----------------------------------------------------------------------------
(* Search pipeline: tavily_search_multiple, deduplicate_search_results,    *)
(* process_search_results, format_search_output                            *)

\* max_results=3 in tavily_search: the provider returns at most that many per query
max_results == 3
\* number of queries of one run (tavily_search itself passes one)
MaxQueries == 2
\* number of results the provider returns in one run, over all queries
MaxHits == 3

NoResultsSentinel ==
    << "N", "o", " ", "v", "a", "l", "i", "d", " ", "s", "e", "a", "r", "c", "h", " ",
       "r", "e", "s", "u", "l", "t", "s", " ", "f", "o", "u", "n", "d", ".", " ", "P",
       "l", "e", "a", "s", "e", " ", "t", "r", "y", " ", "d", "i", "f", "f", "e", "r",
       "e", "n", "t", " ", "s", "e", "a", "r", "c", "h", " ", "q", "u", "e", "r", "i",
       "e", "s", " ", "o", "r", " ", "u", "s", "e", " ", "a", " ", "d", "i", "f", "f",
       "e", "r", "e", "n", "t", " ", "s", "e", "a", "r", "c", "h", " ", "A", "P", "I",
       "." >>

\* a result's raw_content: << >> when the key is missing or None, << text >> otherwise
NoRaw == << >>
Raw(text) == << text >>

Urls == { << "u" >>, << "v" >> }

\* title, content and raw_content of the results the provider returns: an empty
\* title with a content that reads like the sentinel and no raw content; an empty raw
\* content; a raw content to summarize
Payloads ==
    { [title |-> << >>, content |-> NoResultsSentinel, raw_content |-> NoRaw],
      [title |-> << "t" >>, content |-> << "c" >>, raw_content |-> Raw(<< >>)],
      [title |-> << "T" >>, content |-> << "d" >>, raw_content |-> Raw(<< "r", ".", " ", "r" >>)] }

SearchResult(url, p) ==
    [url |-> url, title |-> p.title, content |-> p.content, raw_content |-> p.raw_content]

SearchResults == {SearchResult(url, p) : url \in Urls, p \in Payloads}

\* sequences over S of length 0..n
SeqUpTo(S, n) == UNION {[1..k -> S] : k \in 0..n}

\* str(i) for i >= 0
Digit(d) == CASE d = 0 -> "0" [] d = 1 -> "1" [] d = 2 -> "2" [] d = 3 -> "3"
              [] d = 4 -> "4" [] d = 5 -> "5" [] d = 6 -> "6" [] d = 7 -> "7"
              [] d = 8 -> "8" [] d = 9 -> "9"
RECURSIVE str(_)
str(i) == IF i < 10 THEN << Digit(i) >> ELSE str(i \div 10) \o << Digit(i % 10) >>

\* the i-th query of a run
QueryText(i) == << "q" >> \o str(i)

\* all results of all responses, responses in list order, results in provider order
RECURSIVE AllResults(_)
AllResults(search_results) ==
    IF search_results = << >> THEN << >>
    ELSE Head(search_results).results \o AllResults(Tail(search_results))

DictKeys(d) == {d[i].url : i \in 1..Len(d)}

\* if url not in unique_results: unique_results[url] = result
KeepLast(unique_results, result) ==
    IF result.url \in DictKeys(unique_results)
    THEN [i \in 1..Len(unique_results) |->
             IF unique_results[i].url = result.url
             THEN [url |-> result.url, result |-> result]
             ELSE unique_results[i]]
    ELSE Append(unique_results, [url |-> result.url, result |-> result])
KeepFirst(unique_results, result) ==
    IF result.url \in DictKeys(unique_results)
    THEN unique_results
    ELSE Append(unique_results, [url |-> result.url, result |-> result])

RECURSIVE DedupFrom(_, _)
DedupFrom(unique_results, results) ==
    IF results = << >> THEN unique_results
    ELSE DedupFrom(KeepFirst(unique_results, Head(results)), Tail(results))

deduplicate_search_results(search_results) ==
    DedupFrom(<< >>, AllResults(search_results))

\* not result.get("raw_content")
\* (LacksRawKey: only a missing or None raw_content counts)
LacksRawKey(result) == result.raw_content = NoRaw
LacksRaw(result) == result.raw_content = NoRaw \/ result.raw_content[1] = << >>

\* the content of one processed result; `outcome` is what the summarization model
\* does if it is called
ProcessedContent(result, outcome) ==
    IF LacksRaw(result)
    THEN result.content
    ELSE summarize_webpage_content(result.raw_content[1], outcome).value

process_search_results(unique_results, outcomes) ==
    [i \in 1..Len(unique_results) |->
        [url |-> unique_results[i].url,
         title |-> unique_results[i].result.title,
         content |-> ProcessedContent(unique_results[i].result, outcomes[i])]]

\* the calls of summarize_webpage_content made by process_search_results
RECURSIVE SummarizerCalls(_)
SummarizerCalls(unique_results) ==
    IF unique_results = << >> THEN << >>
    ELSE (IF LacksRaw(Head(unique_results).result) THEN << >>
          ELSE << Head(unique_results).result.raw_content[1] >>)
         \o SummarizerCalls(Tail(unique_results))

OutputHeader ==
    << "S", "e", "a", "r", "c", "h", " ", "r", "e", "s", "u", "l", "t", "s", ":", " ",
       "\n", "\n" >>
SourceOpen ==
    << "\n", "\n", "-", "-", "-", " ", "S", "O", "U", "R", "C", "E", " " >>
SourceSep ==
    << ":", " " >>
TitleClose ==
    << " ", "-", "-", "-", "\n" >>
UrlLabel ==
    << "U", "R", "L", ":", " " >>
SummaryLabel ==
    << "S", "U", "M", "M", "A", "R", "Y", ":", "\n" >>
TwoNewlines ==
    << "\n", "\n" >>
RuleLine == [i \in 1..80 |-> "-"] \o << "\n" >>

\* the text added for the i-th entry of summarized_results
\* (SectionZeroBased: enumerate without its start argument)
SectionZeroBased(i, entry) ==
    SourceOpen \o str(i - 1) \o SourceSep \o entry.title \o TitleClose
    \o UrlLabel \o entry.url \o TwoNewlines
    \o SummaryLabel \o entry.content \o TwoNewlines
    \o RuleLine
Section(i, entry) ==
    SourceOpen \o str(i) \o SourceSep \o entry.title \o TitleClose
    \o UrlLabel \o entry.url \o TwoNewlines
    \o SummaryLabel \o entry.content \o TwoNewlines
    \o RuleLine

RECURSIVE Sections(_, _)
Sections(summarized_results, i) ==
    IF i > Len(summarized_results) THEN << >>
    ELSE Section(i, summarized_results[i]) \o Sections(summarized_results, i + 1)

\* not summarized_results
IsEmptyDictNever(summarized_results) == FALSE
IsEmptyDict(summarized_results) == summarized_results = << >>

format_search_output(summarized_results) ==
    IF IsEmptyDict(summarized_results)
    THEN NoResultsSentinel
    ELSE OutputHeader \o Sections(summarized_results, 1)

\* what a step of the pipeline leaves alone
SearchFrame ==
    UNCHANGED << scopeVars, truncVars, summVars, supVars, resVars, execVars, fanVars >>

SearchIdle ==
    /\ se_pc = "idle"
    /\ se_queries = << >>
    /\ se_docs = << >>
    /\ se_unique = << >>
    /\ se_outcomes = << >>
    /\ se_summarized = << >>
    /\ se_calls = << >>
    /\ se_output = << >>

SearchInit ==
    /\ se_pc = "search"
    /\ \E n \in 1..MaxQueries : se_queries = [i \in 1..n |-> QueryText(i)]
    /\ se_docs = << >>
    /\ se_unique = << >>
    /\ se_outcomes = << >>
    /\ se_summarized = << >>
    /\ se_calls = << >>
    /\ se_output = << >>

\* tavily_search_multiple, one pass of the loop: the provider answers the next query
SearchQuery(results) ==
    /\ SearchFrame
    /\ se_pc = "search"
    /\ Len(se_docs) < Len(se_queries)
    /\ Len(AllResults(se_docs)) + Len(results) <= MaxHits
    /\ se_docs' = Append(se_docs, [query |-> se_queries[Len(se_docs) + 1],
                                   results |-> results])
    /\ se_pc' = IF Len(se_docs') = Len(se_queries) THEN "dedupe" ELSE "search"
    /\ UNCHANGED << se_queries, se_unique, se_outcomes, se_summarized, se_calls, se_output >>

\* tavily_client.search raises: tavily_search catches nothing
SearchRaises ==
    /\ SearchFrame
    /\ se_pc = "search"
    /\ Len(se_docs) < Len(se_queries)
    /\ se_pc' = "raised"
    /\ UNCHANGED << se_queries, se_docs, se_unique, se_outcomes, se_summarized,
                    se_calls, se_output >>

Deduplicate ==
    /\ SearchFrame
    /\ se_pc = "dedupe"
    /\ se_unique' = deduplicate_search_results(se_docs)
    /\ se_pc' = "process"
    /\ UNCHANGED << se_queries, se_docs, se_outcomes, se_summarized, se_calls, se_output >>

\* process_search_results; outcomes[i] is what the summarization model does for the
\* i-th unique result (InferenceFailure where it is not called)
Process(outcomes) ==
    /\ SearchFrame
    /\ se_pc = "process"
    /\ \A i \in 1..Len(se_unique) :
          LacksRaw(se_unique[i].result) => outcomes[i] = InferenceFailure
    /\ se_outcomes' = outcomes
    /\ se_summarized' = process_search_results(se_unique, outcomes)
    /\ se_calls' = SummarizerCalls(se_unique)
    /\ se_pc' = "format"
    /\ UNCHANGED << se_queries, se_docs, se_unique, se_output >>

Format ==
    /\ SearchFrame
    /\ se_pc = "format"
    /\ se_output' = format_search_output(se_summarized)
    /\ se_pc' = "returned"
    /\ UNCHANGED << se_queries, se_docs, se_unique, se_outcomes, se_summarized, se_calls >>

NextSearch ==
    \/ \E results \in SeqUpTo(SearchResults, max_results) : SearchQuery(results)
    \/ SearchRaises
    \/ Deduplicate
    \/ \E outcomes \in [1..Len(se_unique) -> Outcomes] : Process(outcomes)
    \/ Format

-----------------------------------------------------------------------------
(* Search pipeline: claims                                                 *)

\* the pipeline is past deduplicate_search_results
SeDeduplicated == se_pc \in {"process", "format", "returned"}
\* the input's results in scan order, and the first position of a URL in it
SeAll == AllResults(se_docs)
SeFirstIndex(url) ==
    CHOOSE i \in 1..Len(SeAll) :
        /\ SeAll[i].url = url
        /\ \A j \in 1..(i - 1) : SeAll[j].url # url

\* C3: deduplicate_search_results returns exactly one entry per distinct URL of its
\* input, every URL of the input is a key, and the entry of a URL is the first result
\* with that URL (responses in query order, results in provider order), also when
\* the URL occurs again in the same response or in a later one.
C3_DedupKeepsFirstSeen ==
    SeDeduplicated =>
        /\ \A i, j \in 1..Len(se_unique) :
              i # j => se_unique[i].url # se_unique[j].url
        /\ {se_unique[i].url : i \in 1..Len(se_unique)} = {SeAll[i].url : i \in 1..Len(SeAll)}
        /\ \A i \in 1..Len(se_unique) :
              se_unique[i].result = SeAll[SeFirstIndex(se_unique[i].url)]

\* two queries returned the same URL with different titles, and the second one was dropped
C3_Witness ==
    /\ SeDeduplicated
    /\ Len(se_docs) = 2
    /\ Len(se_unique) < Len(SeAll)
    /\ \E i \in 1..Len(se_docs[1].results), j \in 1..Len(se_docs[2].results) :
          /\ se_docs[1].results[i].url = se_docs[2].results[j].url
          /\ se_docs[1].results[i].title # se_docs[2].results[j].title

\* C8: when every query returned zero results the pipeline returns the sentinel;
\* for every non-empty mapping of results the output differs from the sentinel,
\* whatever the titles, URLs and contents are (a content equal to the sentinel's
\* text included).
C8_SentinelOnlyForNoResults ==
    se_pc = "returned" =>
        /\ (\A q \in 1..Len(se_docs) : se_docs[q].results = << >>) =>
              se_output = NoResultsSentinel
        /\ se_summarized # << >> => se_output # NoResultsSentinel

\* a run of two queries, both without results, that returned the sentinel
C8_Witness ==
    /\ se_pc = "returned"
    /\ Len(se_docs) = 2
    /\ \A q \in 1..Len(se_docs) : se_docs[q].results = << >>
    /\ se_output = NoResultsSentinel
    /\ Len(se_output) = 97 /\ se_output[1] = "N"

\* the pipeline is past process_search_results
SeProcessed == se_pc \in {"format", "returned"}
\* raw page content is present and not empty
RawAvailable(result) == result.raw_content # NoRaw /\ result.raw_content[1] # << >>
\* the unique results whose raw content is available
SeWithRaw == {i \in 1..Len(se_unique) : RawAvailable(se_unique[i].result)}
\* the number of entries of se_calls that come before the call for unique result i
CallsBefore(i) == Cardinality({j \in SeWithRaw : j < i})

\* C24: process_search_results calls the summarizer exactly once for every unique
\* result whose raw content is present and non-empty, on that raw content, and the
\* call's output becomes the content; for a missing, None or empty raw content it
\* does not call it and the content is the provider's content field verbatim.  The
\* calls of a run are at most as many as the distinct URLs, and the output has the
\* input's URL keys in the same order.
C24_OneSummaryPerUniqueResult ==
    SeProcessed =>
        /\ Len(se_summarized) = Len(se_unique)
        /\ \A i \in 1..Len(se_unique) : se_summarized[i].url = se_unique[i].url
        /\ Len(se_calls) = Cardinality(SeWithRaw)
        /\ Len(se_calls) <= Cardinality({SeAll[i].url : i \in 1..Len(SeAll)})
        /\ \A i \in 1..Len(se_unique) :
              IF RawAvailable(se_unique[i].result)
              THEN /\ se_calls[CallsBefore(i) + 1] = se_unique[i].result.raw_content[1]
                   /\ se_summarized[i].content =
                         summarize_webpage_content(se_unique[i].result.raw_content[1],
                                                   se_outcomes[i]).value
              ELSE /\ se_outcomes[i] = InferenceFailure
                   /\ se_summarized[i].content = se_unique[i].result.content

\* two queries returned the same page with raw content, next to a page with an empty
\* raw content: one summarizer call, the other content kept verbatim
C24_Witness ==
    /\ SeProcessed
    /\ Len(se_docs) = 2
    /\ \E i \in 1..Len(se_docs[1].results), j \in 1..Len(se_docs[2].results) :
          /\ se_docs[1].results[i].url = se_docs[2].results[j].url
          /\ RawAvailable(se_docs[1].results[i])
          /\ RawAvailable(se_docs[2].results[j])
    /\ Len(se_calls) = 1
    /\ se_outcomes[CHOOSE i \in SeWithRaw : TRUE].ok
    /\ \E i \in 1..Len(se_unique) :
          /\ se_unique[i].result.raw_content = Raw(<< >>)
          /\ se_summarized[i].content = se_unique[i].result.content

\* the positions of SeAll that hold the first result of their URL, and the k-th of them
SeFirsts == {i \in 1..Len(SeAll) : \A j \in 1..(i - 1) : SeAll[j].url # SeAll[i].url}
SeKthFirst(k) == CHOOSE i \in SeFirsts : Cardinality({j \in SeFirsts : j < i}) = k - 1
\* the section the output is to hold for the k-th source
ExpectedSection(k) ==
    << "\n", "\n", "-", "-", "-", " ", "S", "O", "U", "R", "C", "E", " " >>
    \o str(k) \o << ":", " " >> \o SeAll[SeKthFirst(k)].title \o << " ", "-", "-", "-", "\n" >>
    \o << "U", "R", "L", ":", " " >> \o SeAll[SeKthFirst(k)].url \o << "\n", "\n" >>
    \o << "S", "U", "M", "M", "A", "R", "Y", ":", "\n" >>
    \o ProcessedContent(SeAll[SeKthFirst(k)], se_outcomes[k]) \o << "\n", "\n" >>
    \o [i \in 1..80 |-> "-"] \o << "\n" >>
RECURSIVE ExpectedSections(_)
ExpectedSections(k) ==
    IF k > Cardinality(SeFirsts) THEN << >>
    ELSE ExpectedSection(k) \o ExpectedSections(k + 1)

\* C25: the pipeline issues one search call per query, in the order of the query
\* list; the formatted output has one section per unique URL, numbered 1..n in
\* first-seen order (queries in list order, results in provider order), each with
\* the title, the URL and the summary of that source.
C25_OneCallPerQueryOneSectionPerUrl ==
    /\ Len(se_docs) <= Len(se_queries)
    /\ \A q \in 1..Len(se_docs) : se_docs[q].query = se_queries[q]
    /\ se_pc \in {"dedupe", "process", "format", "returned"} => Len(se_docs) = Len(se_queries)
    /\ (se_pc = "returned" /\ SeAll # << >>) =>
          se_output = OutputHeader \o ExpectedSections(1)

\* two queries; the second returned a page of the first again and a new one: two
\* sections, numbered 1 and 2
C25_Witness ==
    /\ se_pc = "returned"
    /\ Len(se_docs) = 2
    /\ Len(SeAll) = 3
    /\ Cardinality(SeFirsts) = 2
    /\ SeAll[1].url = SeAll[2].url
    /\ SeAll[3].url # SeAll[1].url
    /\ se_docs[2].results # << >>
    /\ SeAll[1].title # SeAll[2].title

-----------------------------------------------------------------------------
(* Supervisor delegation loop.  SupervisorState, its reducers, the tools and *)
(* get_notes_from_tool_calls are in the sources; the supervisor node that    *)
(* uses them is not, and its steps follow section 4.4 of the specification.  *)

\* the configured cap on research_iterations
IterationCap == 2
\* the largest number of ConductResearch calls in one supervisor turn
MaxTopics == 3

\* the compressed_research strings a researcher loop can return
Findings == {"findings A", "findings B"}
\* those the loop of a turn's i-th delegation call returns: the loops of the 1st and
\* the 3rd call return the same text, the loop of the 2nd a different one
FindingsOf(i) == {IF i % 2 = 1 THEN "findings A" ELSE "findings B"}

ToolMessage(c) == [type |-> "tool", content |-> c]

\* notes: Annotated[list[str], operator.add] (NotesOverwrite: a field without reducer;
\* NotesPrepend: the operands swapped)
NotesOverwrite(left, right) == right
NotesPrepend(left, right) == right \o left
NotesReducer(left, right) == left \o right

\* [tool_msg.content for tool_msg in filter_messages(messages, include_types="tool")]
\* (get_notes_from_ai_messages: include_types="ai")
get_notes_from_ai_messages(messages) ==
    LET ai_msgs == SelectSeq(messages, LAMBDA m : m.type = "ai")
    IN [i \in 1..Len(ai_msgs) |-> ai_msgs[i].content]
get_notes_from_tool_calls(messages) ==
    LET tool_msgs == SelectSeq(messages, LAMBDA m : m.type = "tool")
    IN [i \in 1..Len(tool_msgs) |-> tool_msgs[i].content]

\* the tool calls of one supervisor model message: ConductResearch(research_topic)
\* n_topics times, and ResearchComplete or not
SupervisorResponses == [n_topics : 0..MaxTopics, complete : BOOLEAN]

\* the largest number of ConductResearch calls in one supervisor turn when the loop
\* is followed to its end within a run of the execution phase
MaxExecTopics == 2
ExecSupervisorResponses == {r \in SupervisorResponses : r.n_topics <= MaxExecTopics}

TopicText(i) == << "topic", i >>

SupervisorAIMessage(response) ==
    [type |-> "ai",
     content |-> [ConductResearch |-> [i \in 1..response.n_topics |-> TopicText(i)],
                  ResearchComplete |-> response.complete]]

\* one researcher loop per ConductResearch call, each with a state of its own
Dispatch(response) ==
    [i \in 1..response.n_topics |->
        [research_topic |-> TopicText(i), status |-> "running",
         compressed_research |-> ""]]

Running == {i \in DOMAIN sub_agents : sub_agents[i].status = "running"}
Completed == {i \in DOMAIN sub_agents : sub_agents[i].status = "completed"}
Failed == {i \in DOMAIN sub_agents : sub_agents[i].status = "failed"}

\* what a step of the supervisor loop leaves alone
SupFrame ==
    UNCHANGED << scopeVars, truncVars, summVars, searchVars, resVars, execVars, fanVars >>

SupIdle ==
    /\ sup_pc = "idle"
    /\ supervisor_messages = << >>
    /\ notes = << >>
    /\ research_iterations = 0
    /\ sub_agents = << >>
    /\ round_notes = << >>

\* SupervisorState at the start of the execution phase: notes = [], research_iterations = 0
SupInit ==
    /\ sup_pc = "model"
    /\ supervisor_messages = << HumanMessage("brief") >>
    /\ notes = << >>
    /\ research_iterations = 0
    /\ sub_agents = << >>
    /\ round_notes = << >>

\* the turn ends the loop: the completion signal, or no delegation call at all
\* (SupervisorStopsOnSignalOnly: only the signal ends it)
SupervisorStopsOnSignalOnly(response) == response.complete
SupervisorStops(response) == response.complete \/ response.n_topics = 0

\* the fan-in barrier: every researcher loop of the turn has finished
\* (BarrierAnyResult: the first result is enough)
BarrierAnyResult(agents) == \E i \in DOMAIN agents : agents[i].status # "running"
Barrier(agents) == \A i \in DOMAIN agents : agents[i].status # "running"

\* a supervisor turn: the model's message is appended; with the completion signal, or
\* without any delegation call, the loop stops; otherwise the researcher loops of the
\* turn's delegation calls are dispatched concurrently
SupervisorTurn(response) ==
    /\ SupFrame
    /\ sup_pc = "model"
    /\ supervisor_messages' =
          add_messages(supervisor_messages, << SupervisorAIMessage(response) >>)
    /\ IF SupervisorStops(response)
       THEN /\ sup_pc' = "done"
            /\ UNCHANGED << sub_agents, round_notes >>
       ELSE /\ sup_pc' = "fan_out"
            /\ sub_agents' = Dispatch(response)
            /\ round_notes' = notes
    /\ UNCHANGED << notes, research_iterations >>

\* a researcher loop in flight returns its compressed_research: it becomes the
\* content of a ToolMessage, and the notes of that message are merged into notes
SubAgentCompletes(i, returned) ==
    /\ SupFrame
    /\ sup_pc = "fan_out"
    /\ i \in Running
    /\ sub_agents' = [sub_agents EXCEPT ![i].status = "completed",
                                        ![i].compressed_research = returned]
    /\ supervisor_messages' =
          add_messages(supervisor_messages, << ToolMessage(returned) >>)
    /\ notes' = NotesReducer(notes,
                    get_notes_from_tool_calls(<< ToolMessage(returned) >>))
    /\ UNCHANGED << sup_pc, research_iterations, round_notes >>

\* what the failure of researcher loop i does to the supervisor: it is caught at the
\* supervisor boundary, the siblings stay in flight (FailureAbortsRound: it is not
\* caught, the round is abandoned)
FailureAbortsRound(agents, i) ==
    [pc |-> "raised",
     agents |-> [j \in DOMAIN agents |->
                    IF agents[j].status = "running"
                    THEN [agents[j] EXCEPT !.status = "failed"]
                    ELSE agents[j]]]
FailureCaught(agents, i) ==
    [pc |-> "fan_out", agents |-> [agents EXCEPT ![i].status = "failed"]]

\* a researcher loop in flight fails (inference or search failure)
SubAgentFails(i) ==
    /\ SupFrame
    /\ sup_pc = "fan_out"
    /\ i \in Running
    /\ sup_pc' = FailureCaught(sub_agents, i).pc
    /\ sub_agents' = FailureCaught(sub_agents, i).agents
    /\ UNCHANGED << supervisor_messages, notes, research_iterations, round_notes >>

\* fan-in: every researcher loop of the turn has finished; research_iterations is
\* incremented once and the loop goes on, unless the cap is reached
FanIn ==
    /\ SupFrame
    /\ sup_pc = "fan_out"
    /\ Barrier(sub_agents)
    /\ research_iterations' = research_iterations + 1
    /\ sup_pc' = IF research_iterations' >= IterationCap THEN "done" ELSE "model"
    /\ UNCHANGED << supervisor_messages, notes, sub_agents, round_notes >>

NextSupervisor ==
    \/ \E response \in SupervisorResponses : SupervisorTurn(response)
    \/ \E i \in DOMAIN sub_agents : \E f \in FindingsOf(i) : SubAgentCompletes(i, f)
    \/ \E i \in DOMAIN sub_agents : SubAgentFails(i)
    \/ FanIn

-----------------------------------------------------------------------------
(* Supervisor delegation loop: claims                                      *)

\* the notes merged since the latest turn dispatched its researcher loops
RoundAdded == SubSeq(notes, Len(round_notes) + 1, Len(notes))
Occurrences(seq, x) == Cardinality({k \in 1..Len(seq) : seq[k] = x})
RoundOver == Running = {} /\ sup_pc \in {"model", "done"} /\ sub_agents # << >>

\* C9: of the M researcher loops a turn dispatches, exactly those that completed
\* have a note among the notes added in that turn, once each: the number of added
\* notes is the number of completed loops, and the added notes are, as a multiset,
\* the compressed_research strings of the completed loops, in whatever order the
\* loops finished; the notes of earlier turns stay in front, untouched.
C9_NotesAreCompletedFindings ==
    /\ Len(round_notes) <= Len(notes)
    /\ SubSeq(notes, 1, Len(round_notes)) = round_notes
    /\ Len(RoundAdded) = Cardinality(Completed)
    /\ \A f \in Findings :
          Occurrences(RoundAdded, f) =
          Cardinality({i \in Completed : sub_agents[i].compressed_research = f})

\* three loops dispatched, all completed, the second one first: the notes are in
\* completion order, not in dispatch order, and hold the text two loops share twice
C9_Witness ==
    /\ RoundOver
    /\ Completed = {1, 2, 3}
    /\ sub_agents[1].compressed_research = "findings A"
    /\ sub_agents[2].compressed_research = "findings B"
    /\ sub_agents[3].compressed_research = "findings A"
    /\ RoundAdded = << "findings B", "findings A", "findings A" >>

\* the step in which a researcher loop fails changes that loop's status and nothing
\* else: no message, no note, no sibling, and the supervisor keeps waiting
C10_FailureStep ==
    \A i \in Running :
        (i \in DOMAIN sub_agents' /\ sub_agents'[i].status = "failed") =>
            /\ sup_pc' = "fan_out"
            /\ notes' = notes
            /\ supervisor_messages' = supervisor_messages
            /\ \A j \in DOMAIN sub_agents : j # i => sub_agents'[j] = sub_agents[j]

\* the fan-out is left only by the fan-in: all loops finished, research_iterations
\* incremented once, the loop continued (or stopped at the cap)
C10_LeavesFanOutByFanIn ==
    (sup_pc = "fan_out" /\ sup_pc' # "fan_out") =>
        /\ Running = {}
        /\ research_iterations' = research_iterations + 1
        /\ sup_pc' = IF research_iterations' >= IterationCap THEN "done" ELSE "model"
        /\ notes' = notes

\* once a loop has failed: the notes added are those of the completed siblings, one
\* each, every sibling in flight can still complete, and the fan-in can follow
C10_AfterFailure ==
    Failed # {} =>
        /\ sup_pc # "raised"
        /\ Len(RoundAdded) = Cardinality(Completed)
        /\ \A j \in Completed :
              Occurrences(RoundAdded, sub_agents[j].compressed_research) >= 1
        /\ sup_pc = "fan_out" =>
              /\ \A j \in Running : \A f \in FindingsOf(j) : ENABLED SubAgentCompletes(j, f)
              /\ Running = {} => ENABLED FanIn

\* C10: a failed researcher loop is contained: the failure never leaves the
\* supervisor, the step that fails touches nothing but the failed loop, the siblings
\* complete and are merged while the failed loop adds no note, and the turn ends by
\* the fan-in, after which the loop continues.
C10_FailureIsContained ==
    /\ [](sup_pc # "raised")
    /\ []C10_AfterFailure
    /\ [][C10_FailureStep /\ C10_LeavesFanOutByFanIn]_vars

\* the first of three loops failed, its siblings completed and were merged (the
\* third before the second), and the loop went on to the next supervisor turn
C10_Witness ==
    /\ sup_pc = "model"
    /\ research_iterations = 1
    /\ Failed = {1}
    /\ Completed = {2, 3}
    /\ notes = << sub_agents[3].compressed_research, sub_agents[2].compressed_research >>
    /\ sub_agents[2].compressed_research # sub_agents[3].compressed_research

\* the model message of the supervisor turn a step takes
TurnMessage == supervisor_messages'[Len(supervisor_messages')]
\* a step is a supervisor turn
IsSupervisorTurn == sup_pc = "model" /\ supervisor_messages' # supervisor_messages

\* a turn stops the loop exactly when it carries the completion signal or no
\* delegation call, and then dispatches nothing; a fan-in stops it exactly when the
\* cap is reached; either stop keeps the notes; after the stop no supervisor state
\* changes
C12_StopStep ==
    /\ IsSupervisorTurn =>
          /\ sup_pc' = "done" <=>
                (TurnMessage.content.ResearchComplete
                    \/ Len(TurnMessage.content.ConductResearch) = 0)
          /\ sup_pc' = "done" => sub_agents' = sub_agents /\ notes' = notes
          /\ sup_pc' # "done" =>
                /\ sup_pc' = "fan_out"
                /\ Len(sub_agents') = Len(TurnMessage.content.ConductResearch)
    /\ sup_pc = "fan_out" =>
          (sup_pc' = "done" <=>
              (research_iterations' # research_iterations
                  /\ research_iterations' >= IterationCap))
    /\ (sup_pc # "done" /\ sup_pc' = "done") => notes' = notes
    /\ sup_pc = "done" => UNCHANGED supVars

\* the loop is never in an error state and never past the cap
C12_NoErrorState ==
    /\ sup_pc \in {"idle", "model", "fan_out", "done"}
    /\ research_iterations <= IterationCap
    /\ sup_pc \in {"model", "fan_out"} => research_iterations < IterationCap

\* C12: the supervisor loop terminates for every sequence of model responses: it
\* stops at the first turn with the completion signal, at the first turn without
\* any delegation call, or when research_iterations reaches the cap; the stop at
\* the cap is a normal stop that keeps the notes gathered so far, and nothing is
\* dispatched after the stop.
C12_SupervisorTerminates ==
    /\ <>(sup_pc = "done")
    /\ []C12_NoErrorState
    /\ [][C12_StopStep]_vars

\* the loop was stopped by the cap, with notes gathered in the last round
C12_Witness ==
    /\ sup_pc = "done"
    /\ research_iterations = IterationCap
    /\ supervisor_messages[Len(supervisor_messages)].type = "tool"
    /\ Len(notes) > Len(round_notes)

\* the supervisor turns so far that dispatched researcher loops
DispatchTurns ==
    Len(SelectSeq(supervisor_messages,
                  LAMBDA m : /\ m.type = "ai"
                             /\ ~m.content.ResearchComplete
                             /\ Len(m.content.ConductResearch) > 0))

\* research_iterations counts the dispatching turns whose fan-in is done, and a
\* supervisor turn is due only when no researcher loop is in flight
C13_CountInvariant ==
    /\ research_iterations >= 0
    /\ research_iterations = DispatchTurns - (IF sup_pc = "fan_out" THEN 1 ELSE 0)
    /\ sup_pc \in {"model", "done"} => Running = {}

\* research_iterations changes only by one, upwards, at a fan-in with no researcher
\* loop in flight; the next supervisor turn is not started before that
C13_CountStep ==
    /\ research_iterations' >= research_iterations
    /\ research_iterations' # research_iterations =>
          /\ research_iterations' = research_iterations + 1
          /\ sup_pc = "fan_out"
          /\ Running = {}
    /\ (sup_pc = "fan_out" /\ sup_pc' # "fan_out") =>
          /\ Running = {}
          /\ research_iterations' = research_iterations + 1
    /\ IsSupervisorTurn => Running = {}

\* C13: research_iterations starts at 0 and never decreases; for each supervisor turn
\* that dispatches researcher loops it is incremented exactly once, and only when
\* every loop of the turn has finished: the next supervisor turn never starts while
\* a loop of the current turn is in flight.
C13_IterationsCountFanIns ==
    /\ []C13_CountInvariant
    /\ [][C13_CountStep]_vars

\* the second supervisor turn is due: one fan-in done, after three loops of which
\* one failed
C13_Witness ==
    /\ sup_pc = "model"
    /\ research_iterations = 1
    /\ DispatchTurns = 1
    /\ Len(sub_agents) = 3
    /\ Cardinality(Failed) = 1


\* the researcher loops that complete in the step
Completing == {i \in Running : sub_agents'[i].status = "completed"}
\* the texts of the supervisor's history that no sub-agent returned (the model's
\* messages carry tool calls, not text)
OtherTexts ==
    {supervisor_messages[k].content :
        k \in {j \in 1..Len(supervisor_messages) : supervisor_messages[j].type = "human"}}

\* notes change only in the step in which a researcher loop completes, by exactly one
\* entry at the end: that loop's compressed_research
C22_NoteStep ==
    /\ Cardinality(Completing) <= 1
    /\ Completing = {} => notes' = notes
    /\ \A i \in Completing : notes' = Append(notes, sub_agents'[i].compressed_research)

\* every note is a text a researcher loop returned, and none is another text of the
\* history; the notes are as many as the results returned to the supervisor
C22_NotesInvariant ==
    /\ \A k \in 1..Len(notes) : notes[k] \in Findings /\ notes[k] \notin OtherTexts
    /\ Len(notes) =
          Cardinality({j \in 1..Len(supervisor_messages) : supervisor_messages[j].type = "tool"})

-----------------------------------------------------------------------------
(* Researcher loop.  ResearcherState, llm_call and the tools are in the     *)
(* sources; the loop around llm_call (tool execution, the iteration counter, *)
(* the routing and the compression pass) is not, and follows section 4.3 of *)
(* the specification.                                                       *)

\* the configured cap on tool_call_iterations
ResearcherCap == 2
\* the largest number of tool calls in one model message
MaxToolCalls == 2

\* the research_topic a loop is started with
Topics == {"topic T"}

\* tools = ['tavily_search', 'think_tool']: the tool calls a model message can hold
ToolCalls == [name : {"tavily_search"}, args : {"query q"}]
                 \cup [name : {"think_tool"}, args : {"reflection r"}]

\* the tool calls of one model message: none, one or several
ResearcherResponses == UNION {[1..n -> ToolCalls] : n \in 0..MaxToolCalls}

ResearcherAIMessage(tool_calls) ==
    [type |-> "ai", content |-> << >>, tool_calls |-> tool_calls]

\* think_tool: f"Reflection recorded: {reflection}"
think_tool(reflection) == << "Reflection recorded: ", reflection >>

\* what tavily_search can return for a query: formatted sources, or the sentinel
SearchOutputs == {<< "Search results: ", "source 1" >>, NoResultsSentinel}

\* the result of one tool call, the search having returned search_output
ToolResult(call, search_output) ==
    IF call.name = "think_tool" THEN think_tool(call.args) ELSE search_output

\* one tool message per tool call, in the order of the calls
ToolResults(tool_calls, outputs) ==
    [i \in 1..Len(tool_calls) |-> ToolMessage(ToolResult(tool_calls[i], outputs[i]))]

\* tool_call_iterations after a model turn (IterationsPerToolCall: counted per call)
IterationsPerToolCall(n, tool_calls) == n + Len(tool_calls)
IterationsAfterTurn(n, tool_calls) == n + 1

\* the iteration cap is reached (CapReachedLate: compared with > instead of >=)
CapReachedLate(n) == n > ResearcherCap
CapReached(n) == n >= ResearcherCap

\* the termination conditions, checked after the tool results of a turn are
\* appended: no tool calls, or the cap reached, lead to the compression pass
\* (AfterToolsCapEnds: at the cap the loop stops without compressing)
AfterToolsCapEnds(tool_calls, n) ==
    IF tool_calls = << >> THEN "compress_research"
    ELSE IF CapReached(n) THEN "done" ELSE "llm_call"
AfterTools(tool_calls, n) ==
    IF tool_calls = << >> \/ CapReached(n) THEN "compress_research" ELSE "llm_call"

\* the model messages followed to the end of the loop: every message asks for one
\* kind of tool
RunResponses ==
    {r \in ResearcherResponses : \A i, j \in DOMAIN r : r[i].name = r[j].name}

\* what a step of the researcher loop leaves alone
ResFrame ==
    UNCHANGED << scopeVars, truncVars, summVars, searchVars, supVars, execVars, fanVars >>

ResIdle ==
    /\ res_pc = "idle"
    /\ researcher_messages = << >>
    /\ tool_call_iterations = 0
    /\ research_topic = None
    /\ compressed_research = None

\* ResearcherState of a loop that was just dispatched for a topic
ResInit ==
    /\ res_pc = "llm_call"
    /\ research_topic \in Topics
    /\ researcher_messages = << HumanMessage(research_topic) >>
    /\ tool_call_iterations = 0
    /\ compressed_research = None

\* llm_call: the model's message, with the tool calls it requests, is the update of
\* researcher_messages; no other key is returned
llm_call(tool_calls) ==
    /\ ResFrame
    /\ res_pc = "llm_call"
    /\ researcher_messages' =
          add_messages(researcher_messages, << ResearcherAIMessage(tool_calls) >>)
    /\ res_pc' = "tools"
    /\ UNCHANGED << tool_call_iterations, research_topic, compressed_research >>

\* llm_call, model_with_tools.invoke raising: llm_call catches nothing
llm_call_raises ==
    /\ ResFrame
    /\ res_pc = "llm_call"
    /\ res_pc' = "raised"
    /\ UNCHANGED << researcher_messages, tool_call_iterations, research_topic,
                    compressed_research >>

\* the rest of the loop body: every tool call of the latest model message is
\* executed in order and its result appended, tool_call_iterations is incremented,
\* then the termination conditions are checked: no tool calls, or the cap reached
ResearcherTools(outputs) ==
    /\ ResFrame
    /\ res_pc = "tools"
    /\ LET tool_calls == researcher_messages[Len(researcher_messages)].tool_calls
       IN /\ Len(outputs) = Len(tool_calls)
          /\ researcher_messages' =
                add_messages(researcher_messages, ToolResults(tool_calls, outputs))
          /\ tool_call_iterations' = IterationsAfterTurn(tool_call_iterations, tool_calls)
          /\ res_pc' = AfterTools(tool_calls, tool_call_iterations')
    /\ UNCHANGED << research_topic, compressed_research >>

\* a search of the latest model message fails: the failure leaves the loop
ResearcherToolFails ==
    /\ ResFrame
    /\ res_pc = "tools"
    /\ \E i \in DOMAIN researcher_messages[Len(researcher_messages)].tool_calls :
          researcher_messages[Len(researcher_messages)].tool_calls[i].name = "tavily_search"
    /\ res_pc' = "raised"
    /\ UNCHANGED << researcher_messages, tool_call_iterations, research_topic,
                    compressed_research >>

\* the compression pass over what was gathered
compress_research(findings) ==
    /\ ResFrame
    /\ res_pc = "compress_research"
    /\ compressed_research' = findings
    /\ res_pc' = "done"
    /\ UNCHANGED << researcher_messages, tool_call_iterations, research_topic >>

\* the inference call of the compression pass fails
compress_research_raises ==
    /\ ResFrame
    /\ res_pc = "compress_research"
    /\ res_pc' = "raised"
    /\ UNCHANGED << researcher_messages, tool_call_iterations, research_topic,
                    compressed_research >>

NextResearcher ==
    \/ \E tool_calls \in ResearcherResponses : llm_call(tool_calls)
    \/ llm_call_raises
    \/ \E n \in 0..MaxToolCalls : \E outputs \in [1..n -> SearchOutputs] :
          ResearcherTools(outputs)
    \/ ResearcherToolFails
    \/ \E findings \in Findings : compress_research(findings)
    \/ compress_research_raises

-----------------------------------------------------------------------------
(* Researcher loop: claims                                                 *)

\* the model messages and the tool results in a message list
ModelMessages(messages) == SelectSeq(messages, LAMBDA m : m.type = "ai")
ToolMessagesOf(messages) == SelectSeq(messages, LAMBDA m : m.type = "tool")
NumModelTurns == Len(ModelMessages(researcher_messages))
NumToolResults == Len(ToolMessagesOf(researcher_messages))

\* the cap bounds the model turns, and at the cap the only step left is compression
C11_CapInvariant ==
    /\ NumModelTurns <= ResearcherCap
    /\ tool_call_iterations <= ResearcherCap
    /\ tool_call_iterations >= ResearcherCap =>
          res_pc \in {"compress_research", "done", "raised"}

\* from the cap on, no model message and no tool result is added
C11_CapStep ==
    tool_call_iterations >= ResearcherCap =>
        /\ researcher_messages' = researcher_messages
        /\ tool_call_iterations' = tool_call_iterations
        /\ res_pc = "compress_research" => res_pc' \in {"done", "raised"}

\* C11: with iteration cap K the researcher loop takes at most K model turns, whatever
\* the model answers, also when every answer requests tools: once
\* tool_call_iterations has reached K the loop is at the compression pass, and no
\* model message and no tool result is added any more.
C11_CapBoundsModelTurns ==
    /\ []C11_CapInvariant
    /\ [][C11_CapStep]_vars

\* every model turn requested tools, the cap stopped the loop and it compressed
C11_Witness ==
    /\ res_pc = "done"
    /\ tool_call_iterations = ResearcherCap
    /\ NumModelTurns = ResearcherCap
    /\ \A i \in 1..Len(researcher_messages) :
          researcher_messages[i].type = "ai" => researcher_messages[i].tool_calls # << >>
    /\ compressed_research \in Findings

\* between loop bodies the counter is the number of model messages
C20_CountInvariant ==
    /\ res_pc \in {"llm_call", "compress_research", "done"} =>
          tool_call_iterations = NumModelTurns
    /\ res_pc = "tools" => tool_call_iterations = NumModelTurns - 1

\* a loop body adds one to the counter, whatever the number of tool calls it ran;
\* no other step changes it
C20_CountStep ==
    /\ (res_pc = "tools" /\ res_pc' # "raised") =>
          tool_call_iterations' = tool_call_iterations + 1
    /\ (res_pc # "tools" \/ res_pc' = "raised") =>
          tool_call_iterations' = tool_call_iterations

\* C20: tool_call_iterations is incremented exactly once per model turn, whatever the
\* number of tool calls of the turn: after any number of loop bodies it equals the
\* number of model messages the loop has appended.
C20_OncePerModelTurn ==
    /\ []C20_CountInvariant
    /\ [][C20_CountStep]_vars

\* two model turns, the first with two tool calls, the second with one: three tool
\* results, and a counter of two
C20_Witness ==
    /\ res_pc = "done"
    /\ tool_call_iterations = 2
    /\ NumModelTurns = 2
    /\ NumToolResults = 3
    /\ Len(researcher_messages[2].tool_calls) = 2

\* the loop has returned
ResReturned == res_pc = "done"
\* the searches of the run that returned sources
SearchHits ==
    {k \in 1..Len(researcher_messages) :
        /\ researcher_messages[k].type = "tool"
        /\ researcher_messages[k].content[1] = "Search results: "}
\* position k holds a model message, followed by one tool result per tool call of
\* it and then by the next model message or by nothing
TurnComplete(k) ==
    LET n == Len(researcher_messages[k].tool_calls)
    IN /\ k + n <= Len(researcher_messages)
       /\ \A j \in (k + 1)..(k + n) : researcher_messages[j].type = "tool"
       /\ k + n < Len(researcher_messages) => researcher_messages[k + n + 1].type = "ai"

\* a returned loop went through the compression pass, and its trace is whole: the
\* topic, then every model turn with all its tool results
C21_ReturnInvariant ==
    ResReturned =>
        /\ compressed_research \notin {None, ""}
        /\ compressed_research \in Findings
        /\ researcher_messages[1] = HumanMessage(research_topic)
        /\ NumModelTurns = tool_call_iterations
        /\ NumModelTurns >= 1
        /\ \A k \in 1..Len(researcher_messages) :
              researcher_messages[k].type = "ai" => TurnComplete(k)
        /\ \/ researcher_messages[Len(researcher_messages)].type = "ai"
           \/ CapReached(tool_call_iterations)

\* no step takes a message out of the trace; the loop returns only from the
\* compression pass, which sets compressed_research and leaves the trace alone; the
\* compression pass is entered from the tool step only, without tool calls or at the cap
C21_ReturnStep ==
    /\ IsPrefix(researcher_messages, researcher_messages')
    /\ (res_pc' = "done" /\ res_pc # "done") =>
          /\ res_pc = "compress_research"
          /\ researcher_messages' = researcher_messages
          /\ compressed_research' \notin {None, ""}
    /\ (res_pc' = "compress_research" /\ res_pc # "compress_research") =>
          /\ res_pc = "tools"
          /\ \/ researcher_messages[Len(researcher_messages)].tool_calls = << >>
             \/ CapReached(tool_call_iterations')

-----------------------------------------------------------------------------
(* Fan-out: the researcher loops one supervisor turn dispatches, run          *)
(* concurrently, every loop on a ResearcherState of its own.  The loop steps *)
(* are those of the researcher loop above; their interleaving and the        *)
(* hand-over to the supervisor follow sections 4.4 and 5 of the               *)
(* specification.                                                             *)

\* the number of loops the turn dispatches
MaxLoops == 2

\* the model messages of a loop in the fan-out: no tool call, or a search followed
\* by a reflection
FanOutResponses ==
    {<< >>,
     << [name |-> "tavily_search", args |-> "query q"],
        [name |-> "think_tool", args |-> "reflection r"] >>}

\* what the searches of loop i return: sources for one loop, the sentinel for the next
FanOutOutput(i) ==
    IF i % 2 = 1 THEN << "Search results: ", "source 1" >> ELSE NoResultsSentinel

\* ResearcherState of the loop dispatched for a topic, and the loop's next step
LoopInit(topic) ==
    [pc |-> "llm_call",
     researcher_messages |-> << HumanMessage(topic) >>,
     tool_call_iterations |-> 0,
     research_topic |-> topic,
     compressed_research |-> None]

\* the tool_call_iterations a loop reads: its own
\* (SharedIterations: one counter for all loops of the fan-out)
RECURSIVE SumIterations(_, _)
SumIterations(ls, n) ==
    IF n = 0 THEN 0 ELSE ls[n].tool_call_iterations + SumIterations(ls, n - 1)
SharedIterations(ls, i) == SumIterations(ls, Len(ls))
OwnIterations(ls, i) == ls[i].tool_call_iterations

\* what a step of a loop of the fan-out leaves alone
FanFrame ==
    UNCHANGED << scopeVars, truncVars, summVars, searchVars, supVars, resVars, execVars >>

FanIdle == loops = << >>

\* a supervisor turn has just dispatched the loops of its delegation calls
FanOutInit ==
    \E n \in 1..MaxLoops :
        LET response == [n_topics |-> n, complete |-> FALSE]
        IN /\ sup_pc = "fan_out"
           /\ supervisor_messages = << HumanMessage("brief"), SupervisorAIMessage(response) >>
           /\ notes = << >>
           /\ research_iterations = 0
           /\ sub_agents = Dispatch(response)
           /\ round_notes = << >>
           /\ loops = [i \in 1..n |-> LoopInit(TopicText(i))]

\* llm_call in loop i
LoopLlmCall(i, tool_calls) ==
    /\ FanFrame
    /\ loops[i].pc = "llm_call"
    /\ loops' = [loops EXCEPT
          ![i].researcher_messages = add_messages(@, << ResearcherAIMessage(tool_calls) >>),
          ![i].pc = "tools"]

\* llm_call in loop i, the inference call raising
LoopLlmCallRaises(i) ==
    /\ FanFrame
    /\ loops[i].pc = "llm_call"
    /\ loops' = [loops EXCEPT ![i].pc = "raised"]

\* the rest of the loop body in loop i: the tool results, the counter, the
\* termination conditions
LoopTools(i) ==
    /\ FanFrame
    /\ loops[i].pc = "tools"
    /\ LET messages == loops[i].researcher_messages
           tool_calls == messages[Len(messages)].tool_calls
           outputs == [j \in 1..Len(tool_calls) |-> FanOutOutput(i)]
           iterations == IterationsAfterTurn(OwnIterations(loops, i), tool_calls)
       IN loops' = [loops EXCEPT
             ![i].researcher_messages = add_messages(@, ToolResults(tool_calls, outputs)),
             ![i].tool_call_iterations = iterations,
             ![i].pc = AfterTools(tool_calls, iterations)]

\* the compression pass of loop i
LoopCompress(i, findings) ==
    /\ FanFrame
    /\ loops[i].pc = "compress_research"
    /\ loops' = [loops EXCEPT ![i].compressed_research = findings, ![i].pc = "done"]

\* loop i has returned: its compressed_research is handed to the supervisor
LoopReturns(i) ==
    /\ loops[i].pc = "done"
    /\ SubAgentCompletes(i, loops[i].compressed_research)

\* loop i has raised: the supervisor catches the failure
LoopFails(i) ==
    /\ loops[i].pc = "raised"
    /\ SubAgentFails(i)

NextFanOut ==
    \/ \E i \in DOMAIN loops : \E tool_calls \in FanOutResponses : LoopLlmCall(i, tool_calls)
    \/ \E i \in DOMAIN loops : LoopLlmCallRaises(i)
    \/ \E i \in DOMAIN loops : LoopTools(i)
    \/ \E i \in DOMAIN loops : \E f \in FindingsOf(i) : LoopCompress(i, f)
    \/ \E i \in DOMAIN loops : LoopReturns(i)
    \/ \E i \in DOMAIN loops : LoopFails(i)
    \/ FanIn

-----------------------------------------------------------------------------
(* Fan-out: claims                                                          *)

\* the states a loop running alone can step to from state st, the loop being the
\* i-th of its turn
SoloNext(st, i) ==
    CASE st.pc = "llm_call" ->
            {[st EXCEPT !.researcher_messages = @ \o << ResearcherAIMessage(tool_calls) >>,
                        !.pc = "tools"] : tool_calls \in FanOutResponses}
            \cup {[st EXCEPT !.pc = "raised"]}
      [] st.pc = "tools" ->
            LET tool_calls == st.researcher_messages[Len(st.researcher_messages)].tool_calls
                results == [j \in 1..Len(tool_calls) |->
                               ToolMessage(IF tool_calls[j].name = "think_tool"
                                           THEN think_tool(tool_calls[j].args)
                                           ELSE FanOutOutput(i))]
                n == st.tool_call_iterations + 1
            IN {[st EXCEPT !.researcher_messages = @ \o results,
                           !.tool_call_iterations = n,
                           !.pc = IF tool_calls = << >> \/ n >= ResearcherCap
                                  THEN "compress_research" ELSE "llm_call"]}
      [] st.pc = "compress_research" ->
            {[st EXCEPT !.compressed_research = f, !.pc = "done"] : f \in FindingsOf(i)}
      [] OTHER -> {}

\* the states a loop running alone can be in
RECURSIVE SoloReachFrom(_, _)
SoloReachFrom(S, i) ==
    LET T == S \cup UNION {SoloNext(st, i) : st \in S}
    IN IF T = S THEN S ELSE SoloReachFrom(T, i)
SoloReach(i) == SoloReachFrom({LoopInit(TopicText(i))}, i)

\* the loops whose state the step changes, and the loop whose result it hands over
Stepping == {i \in DOMAIN loops : loops'[i] # loops[i]}
HandedOver == {i \in Running : sub_agents'[i].status = "completed"}

\* every loop is where it could be had it run alone, and a loop handed over is a
\* returned loop with the compressed_research it returned
C29_SoloInvariant ==
    /\ DOMAIN loops = DOMAIN sub_agents
    /\ \A i \in DOMAIN loops :
          /\ loops[i] \in SoloReach(i)
          /\ loops[i].research_topic = sub_agents[i].research_topic
          /\ sub_agents[i].status = "completed" =>
                /\ loops[i].pc = "done"
                /\ sub_agents[i].compressed_research = loops[i].compressed_research
          /\ sub_agents[i].status = "failed" => loops[i].pc = "raised"

\* a step of a loop is a step the loop could take alone from its own state; it
\* changes that loop's state and nothing else, neither a sibling nor the supervisor
C29_LoopStep ==
    /\ DOMAIN loops' = DOMAIN loops
    /\ Cardinality(Stepping) <= 1
    /\ \A i \in Stepping :
          /\ loops'[i] \in SoloNext(loops[i], i)
          /\ UNCHANGED << sup_pc, supervisor_messages, notes, research_iterations,
                          sub_agents, round_notes >>

\* the hand-over of a result leaves the loops alone and appends the result to notes;
\* of the supervisor's state it changes nothing else
C29_HandOverOnlyNotes ==
    \A i \in HandedOver :
        /\ loops' = loops
        /\ notes' = Append(notes, loops[i].compressed_research)
        /\ supervisor_messages' = supervisor_messages
        /\ research_iterations' = research_iterations
        /\ \A j \in DOMAIN sub_agents : j # i => sub_agents'[j] = sub_agents[j]

\* the hand-over of a result leaves the loops alone, appends the result to notes and
\* puts it, as one tool message, at the end of supervisor_messages; of the
\* supervisor's state it changes nothing else
C29_HandOverNotesAndMessage ==
    \A i \in HandedOver :
        /\ loops' = loops
        /\ notes' = Append(notes, loops[i].compressed_research)
        /\ supervisor_messages' =
              Append(supervisor_messages, ToolMessage(loops[i].compressed_research))
        /\ research_iterations' = research_iterations
        /\ \A j \in DOMAIN sub_agents : j # i => sub_agents'[j] = sub_agents[j]

-----------------------------------------------------------------------------
(* Execution phase: execute_research_phase, the execution graph            *)
(* supervisor_subgraph -> final_report_generation -> save_final_report,    *)
(* and the writer nodes.  The supervisor node is the loop modelled above.   *)

\* the research_brief execute_research_phase is called with
ExecBriefs == {"brief on X", "brief on Y"}

\* what writer_model.ainvoke can return as the content of its message
Reports == {"report R", "report S"}

\* what os.getenv returns for SUPABASE_URL and SUPABASE_KEY: unset, empty or set
Environs ==
    {[SUPABASE_URL |-> "https://project.supabase.co", SUPABASE_KEY |-> "key"],
     [SUPABASE_URL |-> None, SUPABASE_KEY |-> "key"],
     [SUPABASE_URL |-> "", SUPABASE_KEY |-> "key"],
     [SUPABASE_URL |-> "https://project.supabase.co", SUPABASE_KEY |-> None],
     [SUPABASE_URL |-> None, SUPABASE_KEY |-> ""]}

\* what the storage client does in one run of save_final_report
SaveOutcomes == {"create_client raises", "upload raises", "get_public_url raises",
                 "ok"}

\* AgentState of a thread the checkpointer has never seen: notes defaults to []
EmptyAgentState ==
    [messages |-> << >>, research_brief |-> None, supervisor_messages |-> << >>,
     notes |-> << >>, final_report |-> None]

\* state.get(key, default)
StateGet(value, default) == IF value = None THEN default ELSE value

\* sep.join(seq): the items in order with the separator between neighbours
\* (JoinNewestFirst: the items taken from the back)
RECURSIVE JoinNewestFirst(_, _)
JoinNewestFirst(seq, sep) ==
    IF seq = << >> THEN << >>
    ELSE IF Len(seq) = 1 THEN << seq[1] >>
    ELSE << seq[Len(seq)], sep >> \o JoinNewestFirst(SubSeq(seq, 1, Len(seq) - 1), sep)
RECURSIVE Join(_, _)
Join(seq, sep) ==
    IF seq = << >> THEN << >>
    ELSE IF Len(seq) = 1 THEN << seq[1] >>
    ELSE << seq[1], sep >> \o Join(Tail(seq), sep)

\* final_report_generation_prompt.format(research_brief=..., findings=..., date=...)
FinalReportPrompt(brief, findings) ==
    [template |-> "final_report_generation_prompt", research_brief |-> brief,
     findings |-> findings]

\* a plain string in a messages update is taken as a human message by add_messages
StatusMessage(text) == HumanMessage(text)

\* save_final_report: what it returns for the environment and the storage's
\* behaviour; raised is FALSE on every path, the try block catches every Exception
\* (SaveResultUncaught: the upload's exception is not caught)
SaveResultUncaught(supabase_url, supabase_key, outcome) ==
    IF supabase_url \in {None, ""} \/ supabase_key \in {None, ""}
    THEN [raised |-> FALSE, uploaded |-> FALSE,
          message |-> << "Error: SUPABASE_URL and SUPABASE_KEY must be set in environment variables" >>]
    ELSE IF outcome = "create_client raises"
    THEN [raised |-> TRUE, uploaded |-> FALSE, message |-> << >>]
    ELSE IF outcome = "upload raises"
    THEN [raised |-> TRUE, uploaded |-> TRUE, message |-> << >>]
    ELSE IF outcome = "get_public_url raises"
    THEN [raised |-> FALSE, uploaded |-> TRUE,
          message |-> << "Final report uploaded to Supabase: ", "storage_path" >>]
    ELSE [raised |-> FALSE, uploaded |-> TRUE,
          message |-> << "Final report uploaded to Supabase: ", "public_url" >>]
SaveResult(supabase_url, supabase_key, outcome) ==
    IF supabase_url \in {None, ""} \/ supabase_key \in {None, ""}
    THEN [raised |-> FALSE, uploaded |-> FALSE,
          message |-> << "Error: SUPABASE_URL and SUPABASE_KEY must be set in environment variables" >>]
    ELSE IF outcome = "create_client raises"
    THEN [raised |-> FALSE, uploaded |-> FALSE,
          message |-> << "Failed to upload to Supabase: ", "e" >>]
    ELSE IF outcome = "upload raises"
    THEN [raised |-> FALSE, uploaded |-> TRUE,
          message |-> << "Failed to upload to Supabase: ", "e" >>]
    ELSE IF outcome = "get_public_url raises"
    THEN [raised |-> FALSE, uploaded |-> TRUE,
          message |-> << "Final report uploaded to Supabase: ", "storage_path" >>]
    ELSE [raised |-> FALSE, uploaded |-> TRUE,
          message |-> << "Final report uploaded to Supabase: ", "public_url" >>]

\* the state of the fresh thread after the input of execute_research_phase was
\* applied: both keys of the input are channels of AgentState
\* (GraphInputMessagesOnly: the input is cut down to the keys of AgentInputState)
GraphInputMessagesOnly(brief) ==
    [EmptyAgentState EXCEPT !.messages = add_messages(@, << HumanMessage(brief) >>)]
GraphInput(brief) ==
    [EmptyAgentState EXCEPT !.messages = add_messages(@, << HumanMessage(brief) >>),
                            !.research_brief = brief]

\* what a step of the execution graph outside the supervisor leaves alone
ExecFrame ==
    UNCHANGED << scopeVars, truncVars, summVars, searchVars, resVars, fanVars >>

ExecIdle ==
    /\ ex_pc = "idle"
    /\ agent_state = EmptyAgentState
    /\ ex_trace = << >>
    /\ writer_calls = << >>
    /\ uploads = << >>
    /\ environ = None

\* main_research_workflow has built the execution graph and is about to call
\* execute_research_phase
ExecInit ==
    /\ ex_pc = "call"
    /\ agent_state = EmptyAgentState
    /\ ex_trace = << >>
    /\ writer_calls = << >>
    /\ uploads = << >>
    /\ environ = None

\* execute_research_phase: the input {"messages": [HumanMessage(research_brief)],
\* "research_brief": research_brief} is applied to the fresh thread and the graph
\* enters supervisor_subgraph (edge START -> supervisor_subgraph)
execute_research_phase(brief) ==
    /\ ExecFrame
    /\ ex_pc = "call"
    /\ agent_state' = GraphInput(brief)
    /\ ex_pc' = "supervisor_subgraph"
    /\ ex_trace' = << "supervisor_subgraph" >>
    /\ UNCHANGED << writer_calls, uploads, environ, supVars >>

\* the supervisor node starts its loop on the brief of AgentState
SupervisorEnter ==
    /\ ExecFrame
    /\ ex_pc = "supervisor_subgraph"
    /\ sup_pc = "idle"
    /\ sup_pc' = "model"
    /\ supervisor_messages' = << HumanMessage(agent_state.research_brief) >>
    /\ notes' = agent_state.notes
    /\ research_iterations' = 0
    /\ UNCHANGED << sub_agents, round_notes, execVars >>

\* the supervisor node returns: its notes and messages are the node's update of
\* AgentState, merged by the reducers of AgentState; then the edge
\* supervisor_subgraph -> final_report_generation
SupervisorExit ==
    /\ ExecFrame
    /\ ex_pc = "supervisor_subgraph"
    /\ sup_pc = "done"
    /\ agent_state' = [agent_state EXCEPT
                          !.notes = NotesReducer(@, notes),
                          !.supervisor_messages = add_messages(@, supervisor_messages)]
    /\ ex_pc' = "final_report_generation"
    /\ ex_trace' = Append(ex_trace, "final_report_generation")
    /\ UNCHANGED << writer_calls, uploads, environ, supVars >>

\* final_report_generation, writer_model.ainvoke returning a message with `content`;
\* then the edge final_report_generation -> save_final_report
final_report_generation(content) ==
    /\ ExecFrame
    /\ ex_pc = "final_report_generation"
    /\ LET findings == Join(StateGet(agent_state.notes, << >>), "\n")
           final_report_prompt ==
               FinalReportPrompt(StateGet(agent_state.research_brief, ""), findings)
       IN writer_calls' = Append(writer_calls,
                                 [prompt |-> final_report_prompt, raised |-> FALSE,
                                  content |-> content])
    /\ agent_state' = [agent_state EXCEPT
          !.final_report = content,
          !.messages = add_messages(@,
              << StatusMessage(<< "Here is the final report: ", content >>) >>)]
    /\ ex_pc' = "save_final_report"
    /\ ex_trace' = Append(ex_trace, "save_final_report")
    /\ UNCHANGED << uploads, environ, supVars >>

\* (final_report_generation_swallows: the failure is caught, the graph goes on to
\* save_final_report with an empty report)
final_report_generation_swallows ==
    /\ ExecFrame
    /\ ex_pc = "final_report_generation"
    /\ LET findings == Join(StateGet(agent_state.notes, << >>), "\n")
           final_report_prompt ==
               FinalReportPrompt(StateGet(agent_state.research_brief, ""), findings)
       IN writer_calls' = Append(writer_calls,
                                 [prompt |-> final_report_prompt, raised |-> TRUE,
                                  content |-> None])
    /\ agent_state' = [agent_state EXCEPT !.final_report = ""]
    /\ ex_pc' = "save_final_report"
    /\ ex_trace' = Append(ex_trace, "save_final_report")
    /\ UNCHANGED << uploads, environ, supVars >>

\* final_report_generation, writer_model.ainvoke raising: nothing is caught, the
\* exception leaves the node, ainvoke, execute_research_phase and
\* main_research_workflow
final_report_generation_raises ==
    /\ ExecFrame
    /\ ex_pc = "final_report_generation"
    /\ LET findings == Join(StateGet(agent_state.notes, << >>), "\n")
           final_report_prompt ==
               FinalReportPrompt(StateGet(agent_state.research_brief, ""), findings)
       IN writer_calls' = Append(writer_calls,
                                 [prompt |-> final_report_prompt, raised |-> TRUE,
                                  content |-> None])
    /\ ex_pc' = "raised"
    /\ UNCHANGED << agent_state, ex_trace, uploads, environ, supVars >>

\* save_final_report, with what os.getenv returns and what the storage does; then
\* the edge save_final_report -> END
save_final_report(supabase_url, supabase_key, outcome) ==
    /\ ExecFrame
    /\ ex_pc = "save_final_report"
    /\ environ' = [SUPABASE_URL |-> supabase_url, SUPABASE_KEY |-> supabase_key]
    /\ LET r == SaveResult(supabase_url, supabase_key, outcome)
       IN /\ uploads' = IF r.uploaded THEN Append(uploads, agent_state.final_report)
                        ELSE uploads
          /\ IF r.raised
             THEN /\ ex_pc' = "raised"
                  /\ UNCHANGED agent_state
             ELSE /\ ex_pc' = END
                  /\ agent_state' =
                        [agent_state EXCEPT
                            !.messages = add_messages(@, << StatusMessage(r.message) >>)]
    /\ UNCHANGED << ex_trace, writer_calls, supVars >>

NextExecution ==
    \/ \E brief \in ExecBriefs : execute_research_phase(brief)
    \/ SupervisorEnter
    \/ \E response \in ExecSupervisorResponses : SupervisorTurn(response)
    \/ \E i \in DOMAIN sub_agents : \E f \in FindingsOf(i) : SubAgentCompletes(i, f)
    \/ \E i \in DOMAIN sub_agents : SubAgentFails(i)
    \/ FanIn
    \/ SupervisorExit
    \/ \E content \in Reports : final_report_generation(content)
    \/ final_report_generation_raises
    \/ \E env \in Environs : \E outcome \in SaveOutcomes :
          save_final_report(env.SUPABASE_URL, env.SUPABASE_KEY, outcome)

-----------------------------------------------------------------------------
(* Execution phase: claims                                                 *)

\* C14: notes only grows: in every step of the execution phase (supervisor turns,
\* merges of researcher results, the supervisor's return into AgentState, report
\* generation, report saving) the notes before the step are a prefix of the notes
\* after it, in SupervisorState and in AgentState alike.
C14_NotesOnlyGrow ==
    [][/\ IsPrefix(notes, notes')
       /\ IsPrefix(agent_state.notes, agent_state.notes')]_vars

\* a run that ended after two rounds of researcher loops: the notes of the first
\* round are in front of those of the second, and AgentState holds them all
C14_Witness ==
    /\ ex_pc = END
    /\ research_iterations = 2
    /\ round_notes # << >>
    /\ Len(notes) > Len(round_notes)
    /\ agent_state.notes = notes

\* the writer's inference call has returned
WriterDone == ex_pc \in {"save_final_report", END}
\* the writer's inference call has failed
WriterFailed == writer_calls # << >> /\ writer_calls[Len(writer_calls)].raised

\* C17: the report synthesizer makes exactly one inference call per run; the findings
\* of that call are all notes in their append order with a newline between
\* neighbours (no note left out, repeated or moved), the brief of that call is the
\* research brief, and final_report is the content that call returned.
C17_OneCallOverAllNotes ==
    /\ Len(writer_calls) <= 1
    /\ Len(writer_calls) = 1 <=> ex_pc \in {"save_final_report", END, "raised"}
    /\ WriterDone =>
          LET call == writer_calls[1]
              f == call.prompt.findings
              n == agent_state.notes
          IN /\ n = notes
             /\ call.prompt.research_brief = agent_state.research_brief
             /\ Len(f) = IF n = << >> THEN 0 ELSE 2 * Len(n) - 1
             /\ \A k \in 1..Len(f) :
                   f[k] = IF k % 2 = 1 THEN n[(k + 1) \div 2] ELSE "\n"
             /\ ~call.raised
             /\ call.content \in Reports
             /\ agent_state.final_report = call.content

\* the report was written from three notes, in completion order
C17_Witness ==
    /\ WriterDone
    /\ research_iterations = 2
    /\ agent_state.notes = << "findings B", "findings A", "findings A" >>
    /\ writer_calls[1].prompt.findings =
          << "findings B", "\n", "findings A", "\n", "findings A" >>
    /\ agent_state.final_report = "report R"

\* when the writer's call has failed the run has ended with the failure: no report,
\* no message beyond the input, one call only, the save step not entered
C18_FailureInvariant ==
    WriterFailed =>
        /\ ex_pc = "raised"
        /\ Len(writer_calls) = 1
        /\ agent_state.final_report = None
        /\ agent_state.messages = << HumanMessage(agent_state.research_brief) >>
        /\ ex_trace = << "supervisor_subgraph", "final_report_generation" >>
        /\ uploads = << >>
        /\ environ = None

\* C18: when the inference call of the report synthesizer fails, the failure leaves
\* the execution phase (nothing runs after it) and is neither swallowed nor retried:
\* no final_report is written, no "final report" message is appended and the save
\* step does not run.
C18_WriterFailurePropagates ==
    /\ []C18_FailureInvariant
    /\ [][ex_pc # "raised"]_vars

\* the writer failed after the supervisor had gathered notes
C18_Witness ==
    /\ WriterFailed
    /\ ex_pc = "raised"
    /\ Len(agent_state.notes) = 2

\* credentials as save_final_report tests them: `not supabase_url or not supabase_key`
CredentialsMissing(env) ==
    env.SUPABASE_URL \in {None, ""} \/ env.SUPABASE_KEY \in {None, ""}

\* a step of save_final_report ends at END, appends one status message and changes
\* nothing else of AgentState; it uploads at most once, the report, and not at all
\* when credentials are missing
C19_SaveStep ==
    ex_pc = "save_final_report" =>
        /\ ex_pc' = END
        /\ agent_state'.final_report = agent_state.final_report
        /\ agent_state'.notes = agent_state.notes
        /\ agent_state'.research_brief = agent_state.research_brief
        /\ agent_state'.supervisor_messages = agent_state.supervisor_messages
        /\ Len(agent_state'.messages) = Len(agent_state.messages) + 1
        /\ IsPrefix(agent_state.messages, agent_state'.messages)
        /\ agent_state'.messages[Len(agent_state'.messages)].type = "human"
        /\ agent_state'.messages[Len(agent_state'.messages)].content # << >>
        /\ CredentialsMissing(environ') => uploads' = uploads
        /\ uploads' # uploads => uploads' = Append(uploads, agent_state.final_report)
        /\ UNCHANGED << ex_trace, writer_calls, supVars >>

\* C19: whatever save_final_report meets (credentials missing, the client or the
\* upload raising, the public-URL lookup raising, success), it raises nothing and
\* changes only the message list, by one appended status message: final_report,
\* notes and research_brief stay as they were, so the report produced stays valid;
\* with missing credentials no upload is attempted.
C19_SaveOnlyAppendsStatus ==
    /\ [](ex_pc = END => /\ agent_state.final_report = writer_calls[1].content
                         /\ agent_state.notes = notes)
    /\ [][C19_SaveStep]_vars

\* the upload failed: the failure is the last message, the report is still there
C19_Witness ==
    /\ ex_pc = END
    /\ ~CredentialsMissing(environ)
    /\ agent_state.messages[Len(agent_state.messages)] =
          StatusMessage(<< "Failed to upload to Supabase: ", "e" >>)
    /\ uploads = << agent_state.final_report >>
    /\ agent_state.final_report = "report S"
    /\ agent_state.notes # << >>

-----------------------------------------------------------------------------
(* main_research_workflow: the scope turns, then the execution phase       *)

\* the largest number of ConductResearch calls in one supervisor turn when the
\* whole workflow is followed
MaxWorkflowTopics == 1
WorkflowSupervisorResponses == {r \in SupervisorResponses : r.n_topics <= MaxWorkflowTopics}

\* what the writer model returns when the whole workflow is followed
WorkflowReports == {"report R"}

\* what save_final_report meets when the whole workflow is followed: the upload
\* works, the credentials are missing, the upload fails
WorkflowSaves ==
    {[env |-> [SUPABASE_URL |-> "https://project.supabase.co", SUPABASE_KEY |-> "key"],
      outcome |-> "ok"],
     [env |-> [SUPABASE_URL |-> None, SUPABASE_KEY |-> "key"], outcome |-> "ok"],
     [env |-> [SUPABASE_URL |-> "https://project.supabase.co", SUPABASE_KEY |-> "key"],
      outcome |-> "upload raises"]}

\* main_research_workflow after the loop: build_research_execution_graph, the
\* "Researching" line, and the call of execute_research_phase about to be made
StartResearch ==
    /\ main_pc = "execution"
    /\ ex_pc = "idle"
    /\ ex_pc' = "call"
    /\ printed' = << "Researching and generating report..." >>
    /\ UNCHANGED << checkpoints, main_pc, scope_node, scope_thread, decision,
                    brief_response, turn_start, turn_trace, turn_prompts, turns,
                    research_brief, scope_result >>
    /\ UNCHANGED << agent_state, ex_trace, writer_calls, uploads, environ >>
    /\ UNCHANGED << truncVars, summVars, searchVars, supVars, resVars, fanVars >>

\* execute_research_phase returned: main_research_workflow prints the content of the
\* last message of the result and ends
ExecutionReturn ==
    /\ main_pc = "execution"
    /\ ex_pc = END
    /\ main_pc' = "finished"
    /\ printed' = << agent_state.messages[Len(agent_state.messages)].content >>
    /\ UNCHANGED << checkpoints, scope_node, scope_thread, decision, brief_response,
                    turn_start, turn_trace, turn_prompts, turns, research_brief,
                    scope_result >>
    /\ UNCHANGED << execVars, truncVars, summVars, searchVars, supVars, resVars,
                    fanVars >>

NextWorkflow ==
    \/ \E message \in UserInputs : ScopeInvoke(message)
    \/ \E response \in ClarifyWithUser : clarify_with_user(response)
    \/ clarify_with_user_raises
    \/ \E brief \in Briefs : write_research_brief(brief)
    \/ write_research_brief_raises
    \/ ScopeReturn
    \/ StartResearch
    \/ execute_research_phase(research_brief)
    \/ SupervisorEnter
    \/ \E response \in WorkflowSupervisorResponses : SupervisorTurn(response)
    \/ \E i \in DOMAIN sub_agents : \E f \in FindingsOf(i) : SubAgentCompletes(i, f)
    \/ \E i \in DOMAIN sub_agents : SubAgentFails(i)
    \/ FanIn
    \/ SupervisorExit
    \/ \E content \in WorkflowReports : final_report_generation(content)
    \/ final_report_generation_raises
    \/ \E c \in WorkflowSaves :
          save_final_report(c.env.SUPABASE_URL, c.env.SUPABASE_KEY, c.outcome)
    \/ ExecutionReturn

-----------------------------------------------------------------------------
(* main_research_workflow: claims                                          *)

\* the nodes of the execution graph, in the order of its edges
ExecutionOrder == << "supervisor_subgraph", "final_report_generation", "save_final_report" >>
\* the execution phase has been started
ResearchStarted == ex_pc # "idle"
\* the latest scope turn returned a research_brief that is not empty
BriefReturned == scope_result.research_brief \notin {None, ""}

\* research runs only on a returned brief; before that nothing of the execution
\* phase has happened; the nodes run in the order of the edges, each once
C28_OrderInvariant ==
    /\ ResearchStarted =>
          /\ main_pc \in {"execution", "finished"}
          /\ BriefReturned
          /\ research_brief = scope_result.research_brief
    /\ main_pc \notin {"execution", "finished"} =>
          /\ ~ResearchStarted
          /\ sup_pc = "idle" /\ supervisor_messages = << >>
          /\ ex_trace = << >> /\ writer_calls = << >> /\ uploads = << >>
    /\ IsPrefix(ex_trace, ExecutionOrder)
    /\ Len(writer_calls) <= 1
    /\ ex_pc \in {"supervisor_subgraph", "final_report_generation", "save_final_report"} =>
          ex_trace[Len(ex_trace)] = ex_pc
    /\ ex_pc = "supervisor_subgraph" =>
          writer_calls = << >> /\ Len(agent_state.messages) = 1
    /\ ex_pc = "final_report_generation" =>
          sup_pc = "done" /\ Len(agent_state.messages) = 1
    /\ ex_pc = "save_final_report" =>
          sup_pc = "done" /\ Len(writer_calls) = 1 /\ Len(agent_state.messages) = 2
    /\ ex_pc = END =>
          /\ ex_trace = ExecutionOrder
          /\ sup_pc = "done"
          /\ Len(writer_calls) = 1
          /\ Len(agent_state.messages) = 3
          /\ Len(uploads) <= 1
    /\ main_pc = "finished" => ex_pc = END

\* a scope turn that returns without a brief has its last message printed and is
\* followed by a turn on new input; the loop is left only with a brief; research
\* starts only after the loop was left; the supervisor is entered once
C28_OrderStep ==
    /\ (main_pc = "scope_running" /\ main_pc' = "scope_input") =>
          /\ ~BriefReturned'
          /\ printed' = << scope_result'.messages[Len(scope_result'.messages)].content >>
          /\ ~ResearchStarted'
    /\ (main_pc = "scope_running" /\ main_pc' = "execution") => BriefReturned'
    /\ (main_pc = "scope_input" /\ main_pc' # "scope_input") =>
          /\ main_pc' = "scope_running"
          /\ turns' = turns + 1
          /\ scope_node' = "clarify_with_user"
    /\ (~ResearchStarted /\ ResearchStarted') => (main_pc = "execution" /\ BriefReturned)
    /\ (sup_pc # "idle" /\ sup_pc' # sup_pc) => sup_pc' # "idle"
    /\ ex_trace' # ex_trace => Len(ex_trace') = Len(ex_trace) + 1

C23_BriefInvariant ==
    /\ main_pc \in {"execution", "finished"} =>
          /\ research_brief = brief_response
          /\ research_brief = checkpoints[scope_thread].research_brief
          /\ research_brief \notin {None, ""}
    /\ ex_pc \notin {"idle", "call"} =>
          /\ agent_state.research_brief = research_brief
          /\ agent_state.messages[1] = HumanMessage(research_brief)
    /\ sup_pc # "idle" => supervisor_messages[1] = HumanMessage(research_brief)
    /\ \A k \in 1..Len(writer_calls) :
          writer_calls[k].prompt.research_brief = research_brief

\* no step changes a brief that was produced: not the stored one, not the caller's,
\* not the one of AgentState
C23_BriefStep ==
    /\ \A t \in DOMAIN checkpoints :
          checkpoints[t].research_brief \notin {None, ""} =>
              /\ t \in DOMAIN checkpoints'
              /\ checkpoints'[t].research_brief = checkpoints[t].research_brief
    /\ main_pc \in {"execution", "finished"} => research_brief' = research_brief
    /\ ex_pc \notin {"idle", "call"} =>
          agent_state'.research_brief = agent_state.research_brief

-----------------------------------------------------------------------------
(* Specifications                                                          *)

InitScope == ScopeInit /\ TruncIdle /\ SummIdle /\ SearchIdle /\ SupIdle /\ ResIdle /\ ExecIdle /\ FanIdle
SpecScope == InitScope /\ [][ScopeNext]_vars

InitTruncate == TruncInit /\ ScopeIdle /\ SummIdle /\ SearchIdle /\ SupIdle /\ ResIdle /\ ExecIdle /\ FanIdle
NextTruncate == TruncCall
SpecTruncate == InitTruncate /\ [][NextTruncate]_vars

InitSummarize == SummInit /\ ScopeIdle /\ TruncIdle /\ SearchIdle /\ SupIdle /\ ResIdle /\ ExecIdle /\ FanIdle
SpecSummarize == InitSummarize /\ [][NextSummarize]_vars

InitSearch == SearchInit /\ ScopeIdle /\ TruncIdle /\ SummIdle /\ SupIdle /\ ResIdle /\ ExecIdle /\ FanIdle
SpecSearch == InitSearch /\ [][NextSearch]_vars

InitSupervisor == SupInit /\ ScopeIdle /\ TruncIdle /\ SummIdle /\ SearchIdle /\ ResIdle /\ ExecIdle /\ FanIdle
SpecSupervisor == InitSupervisor /\ [][NextSupervisor]_vars

\* the supervisor loop with the turns of a run of the execution phase; every
\* inference call returns and every researcher loop finishes or fails: the event
\* loop runs whatever is ready
NextSupervisorRun ==
    \/ \E response \in ExecSupervisorResponses : SupervisorTurn(response)
    \/ \E i \in DOMAIN sub_agents : \E f \in FindingsOf(i) : SubAgentCompletes(i, f)
    \/ \E i \in DOMAIN sub_agents : SubAgentFails(i)
    \/ FanIn
SpecSupervisorFair ==
    InitSupervisor /\ [][NextSupervisorRun]_vars /\ WF_vars(NextSupervisorRun)

InitResearcher ==
    ResInit /\ ScopeIdle /\ TruncIdle /\ SummIdle /\ SearchIdle /\ SupIdle /\ ExecIdle /\ FanIdle
SpecResearcher == InitResearcher /\ [][NextResearcher]_vars

\* the researcher loop followed to its end: a loop is one sequential task, and each of
\* its steps is a call that returns or raises
NextResearcherRun ==
    \/ \E tool_calls \in RunResponses : llm_call(tool_calls)
    \/ llm_call_raises
    \/ \E n \in 0..MaxToolCalls : \E outputs \in [1..n -> SearchOutputs] :
          ResearcherTools(outputs)
    \/ ResearcherToolFails
    \/ \E findings \in Findings : compress_research(findings)
    \/ compress_research_raises
SpecResearcherFair ==
    InitResearcher /\ [][NextResearcherRun]_vars /\ WF_vars(NextResearcherRun)

InitExecution ==
    ExecInit /\ ScopeIdle /\ TruncIdle /\ SummIdle /\ SearchIdle /\ SupIdle /\ ResIdle /\ FanIdle
SpecExecution == InitExecution /\ [][NextExecution]_vars

InitFanOut ==
    FanOutInit /\ ScopeIdle /\ TruncIdle /\ SummIdle /\ SearchIdle /\ ResIdle /\ ExecIdle
SpecFanOut == InitFanOut /\ [][NextFanOut]_vars

InitWorkflow ==
    ScopeInit /\ TruncIdle /\ SummIdle /\ SearchIdle /\ SupIdle /\ ResIdle /\ ExecIdle /\ FanIdle
SpecWorkflow == InitWorkflow /\ [][NextWorkflow]_vars

====
